---- MODULE Spec2Model ----
(***************************************************************************)
(* The moderation decision-and-enforcement pipeline of ColorGG:           *)
(* ModBot._handleMessage, ModBot._takeAction, ModBot._timeoutUser,        *)
(* ModBot._kickUser, ModBot._requestBan and ModBot._handleInteraction     *)
(* (src/src/bot/mod-bot.js), AIEngine.analyzeMessage and the warning      *)
(* ledger (src/unnamed/part_000), over the ConfigManager store.           *)
(*                                                                         *)
(* Spec runs one handler at a time; ConcSpec, StoreSpec and PendingSpec   *)
(* interleave a second handler, the writers of the store and the start    *)
(* and stop of the bot; LiveSpec adds the fairness of the awaited calls.  *)
(* Every await of the code is a position pc of                            *)
(* the handler; the action that resumes it chooses the outcome of the     *)
(* awaited call and runs the code up to the next await.  log is the       *)
(* ordered record of the handler that is running or has just completed:   *)
(* the platform calls it issued, the outcome of the calls whose outcome   *)
(* the protocol reports, and the audit entries it wrote.  The calls of    *)
(* the reviewer search leave the record when the search ends.             *)
(*                                                                         *)
(* Confidence values are in hundredths (0.7 is 70, 1 is 100).             *)
(***************************************************************************)
EXTENDS Integers, Sequences, FiniteSets, TLC

\* ------------------------------------------------------------- bounds
MaxMessages == 2
MaxThreshold == 2
MaxTracked == 12
MaxListeners == 2
MaxPublished == 2
MaxStarts == 3
MaxIdLen == 2

\* -------------------------------------------------- program constants
FlagThreshold == 70
ActionThreshold == 70
DefaultMaxWarnings == 2
BanReviewMuteMs == 604800000
MsPerSecond == 1000
maxContext == 10

\* ---------------------------------------------------- JavaScript values
Undefined == [t |-> "undefined", b |-> FALSE, n |-> 0, s |-> ""]
Null == [t |-> "null", b |-> FALSE, n |-> 0, s |-> ""]
Bool(x) == [t |-> "boolean", b |-> x, n |-> 0, s |-> ""]
Num(k) == [t |-> "number", b |-> FALSE, n |-> k, s |-> ""]
Str(x) == [t |-> "string", b |-> FALSE, n |-> 0, s |-> x]

NaN == [nan |-> TRUE, n |-> 0]
Finite(k) == [nan |-> FALSE, n |-> k]

\* StringToNumber of the strings the model uses, in hundredths.
StringToNumber(x) ==
  CASE x = "" -> Finite(0)
    [] x = "0.9" -> Finite(90)
    [] x = "0.5" -> Finite(50)
    [] OTHER -> NaN

\* ToNumber, as the relational operators apply it to an operand.
ToNumber(v) ==
  CASE v.t = "undefined" -> NaN
    [] v.t = "null" -> Finite(0)
    [] v.t = "boolean" -> Finite(IF v.b THEN 100 ELSE 0)
    [] v.t = "number" -> Finite(v.n)
    [] OTHER -> StringToNumber(v.s)

\* ToBoolean.
Truthy(v) ==
  CASE v.t = "undefined" -> FALSE
    [] v.t = "null" -> FALSE
    [] v.t = "boolean" -> v.b
    [] v.t = "number" -> v.n # 0
    [] OTHER -> v.s # ""

\* v || d
OrElse(v, d) == IF Truthy(v) THEN v ELSE d

\* v > k, k a number
GreaterThan(v, k) == LET x == ToNumber(v) IN ~x.nan /\ x.n > k

\* -------------------------------------------------------------- domain
Actions == {"none", "warn", "timeout", "kick", "request_ban"}
RuleId == "spam"
UserId == <<"4", "2">>
GuildId == <<"7">>
OtherGuilds == <<"g2", "g3">>

Arr(items) == [arr |-> TRUE, items |-> items]
NotArr == [arr |-> FALSE, items |-> <<>>]

\* ------------------------------------------------ AIEngine.analyzeMessage
NormalizedFlagged(r) ==
  r.flagged = Bool(TRUE)
    /\ GreaterThan(OrElse(r.confidence, Num(0)), FlagThreshold)

Normalize(r) ==
  [flagged |-> NormalizedFlagged(r),
   violations |-> IF r.violations.arr THEN r.violations.items ELSE <<>>,
   confidence |-> IF r.confidence.t = "number" THEN r.confidence ELSE Num(0),
   reasoning |-> OrElse(r.reasoning, Str("No reasoning provided")),
   suggestedAction |-> OrElse(r.suggestedAction, Str("none")),
   suggestedDuration |-> OrElse(r.suggestedDuration, Num(0)),
   replyMessage |-> r.replyMessage]

NoRulesVerdict ==
  [flagged |-> FALSE, violations |-> <<>>, confidence |-> Num(0),
   reasoning |-> Str("No rules enabled"), suggestedAction |-> Undefined,
   suggestedDuration |-> Undefined, replyMessage |-> Undefined]

FailureVerdict ==
  [flagged |-> FALSE, violations |-> <<>>, confidence |-> Num(0),
   reasoning |-> Str("AI analysis failed"), suggestedAction |-> Str("none"),
   suggestedDuration |-> Num(0), replyMessage |-> Null]

NoVerdict ==
  [flagged |-> FALSE, violations |-> <<>>, confidence |-> Undefined,
   reasoning |-> Undefined, suggestedAction |-> Undefined,
   suggestedDuration |-> Undefined, replyMessage |-> Undefined]

NoResult ==
  [flagged |-> Undefined, confidence |-> Undefined, violations |-> NotArr,
   reasoning |-> Undefined, suggestedAction |-> Undefined,
   suggestedDuration |-> Undefined, replyMessage |-> Undefined]

EnabledRules(rs) == SelectSeq(rs, LAMBDA r : r.enabled)

\* ------------------------------------------------------------ the state
VARIABLES
  rules,           \* ConfigManager: config.rules
  settings,        \* ConfigManager: config.settings
  userWarnings,    \* AIEngine.userWarnings (an absent user counts 0)
  recentMessages,  \* AIEngine.recentMessages: channel id -> entries
  pendingBans,     \* ModBot.pendingBans: key -> PendingBanRequest
  messageCount,    \* ModBot.messageCount
  actionCount,     \* ModBot.actionCount
  controls,        \* posted review messages whose approve/deny buttons are still attached
  pc,              \* the await the running handler is suspended at; "idle", "done"
  msg,             \* the message being handled
  result,          \* analyzeMessage: the parsed classifier response
  analysis,        \* the verdict analyzeMessage returned
  h,               \* the locals of _takeAction, _requestBan, _handleInteraction
  log,             \* platform calls issued and audit entries written, in order
  parked,          \* a second handler, suspended at an await while the first runs
  statusListeners, \* ModBot.statusListeners
  listeners,       \* Logger.listeners
  received,        \* what each listener was called with, in order
  file,            \* Logger: the entries written to the log file of the day
  lifecycle,       \* ModBot.isRunning and ModBot.client, with the platform's sessions
  review           \* a posted ban request: its offender and the custom ids of its buttons

config == <<rules, settings>>
engine == <<userWarnings, recentMessages>>
modbot == <<pendingBans, messageCount, actionCount, controls>>
task == <<pc, msg, result, analysis, h, log>>
\* what the steps of a handler leave alone
aside == <<parked, statusListeners, listeners, received, file, lifecycle, review>>
vars == <<rules, settings, userWarnings, recentMessages, pendingBans, messageCount,
          actionCount, controls, pc, msg, result, analysis, h, log,
          parked, statusListeners, listeners, received, file, lifecycle, review>>

Call(op) == [k |-> "call", op |-> op, n |-> 0]
Ret(op, ok) == [k |-> "return", op |-> op, n |-> IF ok THEN 1 ELSE 0]
CallN(op, n) == [k |-> "call", op |-> op, n |-> n]
Audit(type, what) == [k |-> type, op |-> what, n |-> 0]
AuditN(type, what, n) == [k |-> type, op |-> what, n |-> n]

Rule(action, duration, enabled) ==
  [id |-> RuleId, action |-> action, timeoutDuration |-> duration, enabled |-> enabled]
NoRule == [id |-> "", action |-> "", timeoutDuration |-> 0, enabled |-> FALSE]

Settings(threshold, dm) ==
  [warningsBeforeAction |-> threshold, dmOnAction |-> dm,
   ignoredChannels |-> {"c9"}, ignoredRoles |-> {"muted"}, trustedRoles |-> {"staff"}]

Thresholds == {Undefined} \cup {Num(k) : k \in 0..MaxThreshold}
RuleDurations == {0, 300}

\* The configurations the store starts with: every rule under the default
\* settings, the timeout rules under every threshold, and the offender notice
\* switched on for a rule of each kind of enforcement.
RuleSets ==
  {<<Rule(a, 0, TRUE)>> : a \in Actions}
    \cup {<<Rule("timeout", d, e)>> : d \in RuleDurations, e \in BOOLEAN}
Configs ==
  {[rules |-> rs, settings |-> Settings(Undefined, FALSE)] : rs \in RuleSets}
    \cup {[rules |-> <<Rule("timeout", d, TRUE)>>, settings |-> Settings(t, FALSE)] :
            d \in RuleDurations, t \in Thresholds}
    \cup {[rules |-> <<Rule(a, 0, TRUE)>>, settings |-> Settings(Num(1), TRUE)] :
            a \in {"timeout", "kick", "request_ban"}}

\* The locals of the running handler.  executed names the branch _takeAction
\* took, member what the member lookup gave, raised whether a rejection left
\* the handler; start is the shared state the handler found when it began.
Locals(uw, pb, ac) ==
  [action |-> "", duration |-> 0, hasRule |-> FALSE, rule |-> NoRule, reply |-> Undefined,
   warningCount |-> 0, maxWarnings |-> 0,
   dm |-> FALSE, executed |-> "", member |-> "", kicked |-> FALSE, admin |-> FALSE,
   gi |-> 0, modChannel |-> FALSE, anyChannel |-> FALSE,
   delivered |-> FALSE, type |-> "", key |-> <<>>, by |-> "", raised |-> FALSE,
   start |-> [userWarnings |-> uw, pendingBans |-> pb, actionCount |-> ac]]

H0 == Locals(userWarnings, pendingBans, actionCount)

Message(isBot, isSystem, inGuild, channel, roles) ==
  [bot |-> isBot, system |-> isSystem, guild |-> inGuild, channel |-> channel, roles |-> roles]
NoMessage == Message(FALSE, FALSE, FALSE, "", {})
GuildMessage == Message(FALSE, FALSE, TRUE, "c1", {})
Messages ==
  {GuildMessage,
   Message(TRUE, FALSE, TRUE, "c1", {}),
   Message(FALSE, TRUE, TRUE, "c1", {}),
   Message(FALSE, FALSE, FALSE, "c1", {}),
   Message(FALSE, FALSE, TRUE, "c9", {}),
   Message(FALSE, FALSE, TRUE, "c1", {"muted"}),
   Message(FALSE, FALSE, TRUE, "c1", {"staff"})}

\* a handler slot in which nothing has run yet
IdleTask ==
  [pc |-> "idle", msg |-> NoMessage, result |-> NoResult, analysis |-> NoVerdict,
   h |-> Locals([u \in {UserId} |-> 0], <<>>, 0), log |-> <<>>]

\* ModBot constructor, lines 8-9; client is this.client (0 for null), calls
\* counts the calls of start, made the clients created, rejected the calls
\* that threw Bot is already running; pending holds the clients whose login is
\* awaited, sessions the clients that are logged in, destroyed those that
\* client.destroy() was called on
Constructed ==
  [isRunning |-> FALSE, client |-> 0, calls |-> 0, made |-> 0, pending |-> {},
   sessions |-> {}, destroyed |-> {}, rejected |-> 0]

\* no ban request posted: user and guild are the ids of the request, customIds
\* those of its two buttons, stored the key given to pendingBans.set; pressed
\* is the button an interaction came from, parsed what customId.split gave and
\* deleted the key given to pendingBans.delete
NoParts == [action |-> <<>>, type |-> <<>>, userId |-> <<>>, guildId |-> <<>>]
NoReview ==
  [user |-> <<>>, guild |-> <<>>, customIds |-> {}, stored |-> <<>>,
   pressed |-> "", parsed |-> NoParts, deleted |-> <<>>]

\* no second handler, no listener, nothing written, the bot not started
Alone ==
  /\ parked = IdleTask
  /\ statusListeners = <<>>
  /\ listeners = <<>>
  /\ received = [status |-> <<>>, log |-> <<>>]
  /\ file = <<>>
  /\ lifecycle = Constructed
  /\ review = NoReview

Init ==
  /\ Alone
  /\ \E c \in Configs : rules = c.rules /\ settings = c.settings
  /\ userWarnings = [u \in {UserId} |-> 0]
  /\ recentMessages = <<>>
  /\ pendingBans = <<>>
  /\ messageCount = 0
  /\ actionCount = 0
  /\ controls = 0
  /\ pc = "idle"
  /\ msg = NoMessage
  /\ result = NoResult
  /\ analysis = NoVerdict
  /\ h = Locals([u \in {UserId} |-> 0], <<>>, 0)
  /\ log = <<>>

Idle == pc \in {"idle", "done"}

\* ------------------------------------------------- the classifier's replies
Result(flagged, confidence, violations, action, duration, reply) ==
  [flagged |-> flagged, confidence |-> confidence, violations |-> violations,
   reasoning |-> Str("because"), suggestedAction |-> action,
   suggestedDuration |-> duration, replyMessage |-> reply]

RawFlags == {Bool(TRUE), Bool(FALSE), Str("true"), Undefined}
RawConfidences ==
  {Undefined, Null, Bool(TRUE), Str("0.9"), Str("0.5"), Str("high"),
   Num(-10), Num(0), Num(50), Num(70), Num(71), Num(150)}
RawViolations == {NotArr, Arr(<<>>), Arr(<<RuleId>>), Arr(<<"zz", RuleId>>)}
RawActions == {Undefined} \cup {Str(a) : a \in Actions \cup {"ban"}}
RawDurations == {Undefined, Num(0), Num(600)}
RawReplies == {Undefined, Null, Str("please stop")}

\* Parsed responses: every flag and confidence with the other fields fixed, and
\* every combination of the other fields under a confident flag.
Results ==
  {Result(f, c, Arr(<<RuleId>>), Str("timeout"), Num(600), Null) :
      f \in RawFlags, c \in RawConfidences}
  \cup {Result(Bool(TRUE), Num(90), v, a, d, Null) :
      v \in RawViolations, a \in RawActions, d \in RawDurations}
  \cup {Result(Bool(TRUE), Num(90), Arr(<<RuleId>>), Str("timeout"), Num(600), r) :
      r \in RawReplies}

\* --------------------------------------------------- AIEngine warning ledger
getWarningCount(uw, u) == uw[u]
\* A variant of addWarning that adds one to the count the handler found when it
\* began, before its awaits, instead of the count of the moment.
addWarningStale(uw, u) == [uw EXCEPT ![u] = getWarningCount(h.start.userWarnings, u) + 1]

\* part_000, lines 293-297: read and write in one synchronous run
addWarning(uw, u) == [uw EXCEPT ![u] = getWarningCount(uw, u) + 1]

\* A variant of TrackMessage that drops the newest entry of a full sequence.
TrackMessageDropsNewest(rm, c, entry) ==
  LET msgs == IF c \in DOMAIN rm THEN rm[c] ELSE <<>>
      pushed == Append(msgs, entry)
      kept == IF Len(pushed) > maxContext THEN SubSeq(pushed, 1, maxContext) ELSE pushed
  IN  [x \in DOMAIN rm \cup {c} |-> IF x = c THEN kept ELSE rm[x]]

\* AIEngine._trackMessage
TrackMessage(rm, c, entry) ==
  LET msgs == IF c \in DOMAIN rm THEN rm[c] ELSE <<>>
      pushed == Append(msgs, entry)
      kept == IF Len(pushed) > maxContext THEN Tail(pushed) ELSE pushed
  IN  [x \in DOMAIN rm \cup {c} |-> IF x = c THEN kept ELSE rm[x]]

\* ------------------------------------------------------ ModBot._takeAction
\* A variant of Gate without the confidence test of line 130.
GateFlagOnly(a) == a.flagged

\* _handleMessage, line 130
Gate(a) == a.flagged /\ GreaterThan(a.confidence, ActionThreshold)

\* A variant of PrimaryViolation that takes the last violation of the list.
LastViolation(a) ==
  IF Len(a.violations) > 0 THEN a.violations[Len(a.violations)] ELSE ""

\* _takeAction, line 145
PrimaryViolation(a) == IF Len(a.violations) > 0 THEN a.violations[1] ELSE ""

\* rules.find(r => r.id === primaryViolation): the index of the first match, or 0
FindRule(rs, id) ==
  LET I == {i \in 1..Len(rs) : rs[i].id = id}
  IN  IF id = "" \/ I = {} THEN 0 ELSE CHOOSE i \in I : \A j \in I : i <= j

ResolveAction(a, rs) ==
  LET i == FindRule(rs, PrimaryViolation(a))
  IN  IF i # 0 THEN rs[i].action ELSE a.suggestedAction.s

ResolveDuration(a, rs) ==
  LET i == FindRule(rs, PrimaryViolation(a))
  IN  IF i # 0 /\ rs[i].timeoutDuration # 0 THEN rs[i].timeoutDuration
      ELSE a.suggestedDuration.n

MaxWarnings(s) == OrElse(s.warningsBeforeAction, Num(DefaultMaxWarnings)).n

\* A variant of WarnBranch that softens every action but warn below the threshold.
WarnBranchAnyAction(action, warningCount, maxWarnings) ==
  action = "warn" \/ warningCount < maxWarnings

\* _takeAction, line 157
WarnBranch(action, warningCount, maxWarnings) ==
  action = "warn" \/ (action = "timeout" /\ warningCount < maxWarnings)

FailureKinds == {"timeout", "network", "no_json", "bad_json"}

\* ------------------------------------------------- ModBot._handleMessage
\* A variant of Ignored without the trusted-role test of lines 121-124.
IgnoredNoTrusted(m, s) ==
  \/ m.channel \in s.ignoredChannels
  \/ m.roles \cap s.ignoredRoles # {}

\* lines 113-124: message.member is set when the handler starts
Ignored(m, s) ==
  \/ m.channel \in s.ignoredChannels
  \/ m.roles \cap s.ignoredRoles # {}
  \/ m.roles \cap s.trustedRoles # {}

Consumed == result' = NoResult /\ analysis' = NoVerdict

\* _takeAction, lines 212-238: the notice to the offender, then the counter
Notice(lg) ==
  IF h.dm /\ h.action # "warn"
  THEN /\ pc' = "o_dm"
       /\ log' = Append(lg, Call("offender.dm"))
       /\ UNCHANGED actionCount
  ELSE /\ pc' = "done"
       /\ log' = lg
       /\ actionCount' = actionCount + 1

\* A variant of AttemptDelete that goes on to the switch without the delete call.
SkipDelete(lg) ==
  /\ pc' = "delete"
  /\ log' = lg

\* _takeAction, lines 189-194: every branch but the warn branch deletes first
AttemptDelete(lg) ==
  /\ pc' = "delete"
  /\ log' = Append(lg, Call("delete"))

\* _takeAction, lines 139-194: up to its first await
TakeAction(a, lg) ==
  LET action == ResolveAction(a, rules)
      duration == ResolveDuration(a, rules)
      i == FindRule(rules, PrimaryViolation(a))
      warningCount == getWarningCount(userWarnings, UserId)
      locals == [h EXCEPT !.action = action, !.duration = duration,
                          !.hasRule = i # 0,
                          !.rule = IF i # 0 THEN rules[i] ELSE NoRule,
                          !.reply = a.replyMessage,
                          !.warningCount = warningCount,
                          !.maxWarnings = MaxWarnings(settings),
                          !.dm = settings.dmOnAction]
  IN  IF WarnBranch(action, warningCount, MaxWarnings(settings))
      THEN /\ userWarnings' = addWarning(userWarnings, UserId)
           /\ h' = [locals EXCEPT !.executed = "warn"]
           /\ IF Truthy(a.replyMessage)
              THEN /\ pc' = "w_reply"
                   /\ log' = Append(lg, Call("reply"))
                   /\ UNCHANGED actionCount
              ELSE /\ pc' = "done"
                   /\ log' = Append(lg, Audit("mod_action", "warn"))
                   /\ actionCount' = actionCount + 1
      ELSE /\ h' = [locals EXCEPT !.executed = action]
           /\ AttemptDelete(lg)
           /\ UNCHANGED <<userWarnings, actionCount>>

\* messageCreate: _handleMessage up to the classification request
HandleMessage(m) ==
  /\ Idle
  /\ msg' = m
  /\ result' = NoResult
  /\ h' = H0
  /\ UNCHANGED <<aside, config, userWarnings, pendingBans, actionCount, controls>>
  /\ IF m.bot \/ m.system \/ ~m.guild
     THEN /\ pc' = "done"
          /\ log' = <<>>
          /\ analysis' = NoVerdict
          /\ UNCHANGED <<messageCount, recentMessages>>
     ELSE /\ messageCount < MaxMessages
          /\ messageCount' = messageCount + 1
          /\ IF Ignored(m, settings)
             THEN /\ pc' = "done"
                  /\ log' = <<>>
                  /\ analysis' = NoVerdict
                  /\ UNCHANGED recentMessages
             ELSE IF EnabledRules(rules) = <<>>
             THEN /\ pc' = "done"
                  /\ log' = <<>>
                  /\ analysis' = NoRulesVerdict
                  /\ UNCHANGED recentMessages
             ELSE /\ pc' = "classifier"
                  /\ log' = <<Call("axios.post")>>
                  /\ analysis' = NoVerdict
                  /\ recentMessages' = TrackMessage(recentMessages, m.channel, messageCount')

\* A variant of ClassifierFails whose catch block logs and rethrows, so that
\* the catch block of _handleMessage logs too.
ClassifierRethrows(kind) ==
  /\ pc = "classifier"
  /\ result' = NoResult
  /\ analysis' = [FailureVerdict EXCEPT !.reasoning = Str(kind)]
  /\ log' = Append(Append(log, Audit("error", "AI analysis failed")),
                   Audit("error", "Message handling failed"))
  /\ pc' = "done"
  /\ UNCHANGED <<aside, config, engine, modbot, msg, h>>

\* A variant of ClassifierFails whose catch block logs and returns nothing, so
\* that reading analysis.flagged throws into the catch block of _handleMessage.
ClassifierFailsNoVerdict(kind) ==
  /\ pc = "classifier"
  /\ result' = NoResult
  /\ analysis' = NoVerdict
  /\ log' = Append(Append(log, Audit("error", "AI analysis failed")),
                   Audit("error", "Message handling failed"))
  /\ pc' = "done"
  /\ UNCHANGED <<aside, config, engine, modbot, msg, h>>

\* the classification request fails, or its body does not parse: lines 270-286
ClassifierFails(kind) ==
  /\ pc = "classifier"
  /\ result' = NoResult
  /\ analysis' = [FailureVerdict EXCEPT !.reasoning = Str(kind)]
  /\ log' = Append(log, Audit("error", "AI analysis failed"))
  /\ pc' = "done"
  /\ UNCHANGED <<aside, config, engine, modbot, msg, h>>

\* A variant of ClassifierReturns in which _takeAction writes the duration it
\* resolved back into the rules of the store.
ClassifierReturnsWritesRule(r) ==
  /\ pc = "classifier"
  /\ result' = r
  /\ analysis' = Normalize(r)
  /\ LET a == Normalize(r)
         lg == Append(log, Audit("ai_analysis", ""))
     IN  IF Gate(a)
         THEN /\ TakeAction(a, lg)
              /\ rules' = [i \in DOMAIN rules |->
                            [rules[i] EXCEPT !.timeoutDuration = ResolveDuration(a, rules)]]
         ELSE /\ pc' = "done"
              /\ log' = lg
              /\ UNCHANGED <<userWarnings, actionCount, h, rules>>
  /\ UNCHANGED <<aside, settings, recentMessages, pendingBans, messageCount, controls, msg>>

\* the classification request returns a body that parses to an object
ClassifierReturns(r) ==
  /\ pc = "classifier"
  /\ result' = r
  /\ analysis' = Normalize(r)
  /\ LET a == Normalize(r)
         lg == Append(log, Audit("ai_analysis", ""))
     IN  IF Gate(a)
         THEN TakeAction(a, lg)
         ELSE /\ pc' = "done"
              /\ log' = lg
              /\ UNCHANGED <<userWarnings, actionCount, h>>
  /\ UNCHANGED <<aside, config, recentMessages, pendingBans, messageCount, controls, msg>>

\* message.reply of the warn branch returns
ReplyReturns(ok) ==
  /\ pc = "w_reply"
  /\ Consumed
  /\ pc' = "done"
  /\ log' = Append(log, Audit("mod_action", "warn"))
  /\ actionCount' = actionCount + 1
  /\ UNCHANGED <<aside, config, engine, pendingBans, messageCount, controls, msg, h>>

\* A variant of DeleteReturns with neither the try of lines 190-194 nor that of
\* lines 127-135: a rejected delete leaves _takeAction and _handleMessage.
DeleteReturnsEscapes(ok) ==
  /\ pc = "delete"
  /\ Consumed
  /\ IF ok
     THEN /\ h' = h
          /\ LET lg == Append(log, Ret("delete", TRUE))
             IN  CASE h.action = "timeout" ->
                        pc' = "t_member" /\ log' = lg /\ UNCHANGED actionCount
                   [] h.action = "kick" ->
                        pc' = "k_member" /\ log' = lg /\ UNCHANGED actionCount
                   [] h.action = "request_ban" ->
                        pc' = "b_member" /\ log' = lg /\ UNCHANGED actionCount
                   [] OTHER -> Notice(lg)
     ELSE /\ h' = [h EXCEPT !.raised = TRUE]
          /\ pc' = "done"
          /\ log' = Append(log, Ret("delete", FALSE))
          /\ UNCHANGED actionCount
  /\ UNCHANGED <<aside, config, engine, pendingBans, messageCount, controls, msg>>

\* A variant of DeleteReturns whose catch block logs the error and returns from
\* _takeAction.
DeleteReturnsAborts(ok) ==
  /\ pc = "delete"
  /\ Consumed
  /\ IF ok
     THEN /\ h' = h
          /\ LET lg == Append(log, Ret("delete", TRUE))
             IN  CASE h.action = "timeout" ->
                        pc' = "t_member" /\ log' = lg /\ UNCHANGED actionCount
                   [] h.action = "kick" ->
                        pc' = "k_member" /\ log' = lg /\ UNCHANGED actionCount
                   [] h.action = "request_ban" ->
                        pc' = "b_member" /\ log' = lg /\ UNCHANGED actionCount
                   [] OTHER -> Notice(lg)
     ELSE /\ h' = h
          /\ pc' = "done"
          /\ log' = Append(Append(log, Ret("delete", FALSE)),
                           Audit("error", "Failed to delete message"))
          /\ UNCHANGED actionCount
  /\ UNCHANGED <<aside, config, engine, pendingBans, messageCount, controls, msg>>

\* A variant of DeleteReturns that calls message.delete once more after its
\* first failure.
DeleteReturnsRetries(ok) ==
  /\ pc = "delete"
  /\ Consumed
  /\ IF ~ok /\ ~\E i \in DOMAIN log : log[i] = Ret("delete", FALSE)
     THEN /\ pc' = "delete"
          /\ h' = h
          /\ log' = Append(Append(log, Ret("delete", FALSE)), Call("delete"))
          /\ UNCHANGED actionCount
     ELSE /\ h' = IF h.action = "timeout" THEN h
                  ELSE [h EXCEPT !.duration = 0, !.reply = Undefined]
          /\ LET lg == IF ok THEN Append(log, Ret("delete", TRUE))
                       ELSE Append(Append(log, Ret("delete", FALSE)),
                                   Audit("error", "Failed to delete message"))
             IN  CASE h.action = "timeout" ->
                        pc' = "t_member" /\ log' = lg /\ UNCHANGED actionCount
                   [] h.action = "kick" ->
                        pc' = "k_member" /\ log' = lg /\ UNCHANGED actionCount
                   [] h.action = "request_ban" ->
                        pc' = "b_member" /\ log' = lg /\ UNCHANGED actionCount
                   [] OTHER -> Notice(lg)
  /\ UNCHANGED <<aside, config, engine, pendingBans, messageCount, controls, msg>>

\* message.delete returns: the switch on the action.  Only the timeout branch
\* reads duration and replyMessage again, so the other branches drop them.
DeleteReturns(ok) ==
  /\ pc = "delete"
  /\ Consumed
  /\ h' = IF h.action = "timeout" THEN h
          ELSE [h EXCEPT !.duration = 0, !.reply = Undefined]
  /\ LET lg == IF ok THEN Append(log, Ret("delete", TRUE))
               ELSE Append(Append(log, Ret("delete", FALSE)),
                           Audit("error", "Failed to delete message"))
     IN  CASE h.action = "timeout" ->
                pc' = "t_member" /\ log' = lg /\ UNCHANGED actionCount
           [] h.action = "kick" ->
                pc' = "k_member" /\ log' = lg /\ UNCHANGED actionCount
           [] h.action = "request_ban" ->
                pc' = "b_member" /\ log' = lg /\ UNCHANGED actionCount
           [] OTHER -> Notice(lg)
  /\ UNCHANGED <<aside, config, engine, pendingBans, messageCount, controls, msg>>

\* ------------------------------------------------------ ModBot._timeoutUser
TimeoutMember(ok) ==
  /\ pc = "t_member"
  /\ Consumed
  /\ IF ok
     THEN /\ pc' = "t_mute"
          /\ log' = Append(log, CallN("member.timeout", h.duration * MsPerSecond))
          /\ UNCHANGED actionCount
     ELSE Notice(Append(log, Audit("error", "Timeout failed")))
  /\ UNCHANGED <<aside, config, engine, pendingBans, messageCount, controls, msg, h>>

TimeoutReturns(ok) ==
  /\ pc = "t_mute"
  /\ Consumed
  /\ IF ok
     THEN IF Truthy(h.reply)
          THEN /\ pc' = "t_announce"
               /\ log' = Append(Append(log, Ret("member.timeout", TRUE)),
                                Call("channel.send"))
               /\ UNCHANGED actionCount
          ELSE Notice(Append(Append(log, Ret("member.timeout", TRUE)),
                             AuditN("mod_action", "timeout", h.duration)))
     ELSE Notice(Append(Append(log, Ret("member.timeout", FALSE)),
                        Audit("error", "Timeout failed")))
  /\ UNCHANGED <<aside, config, engine, pendingBans, messageCount, controls, msg, h>>

TimeoutAnnounced(ok) ==
  /\ pc = "t_announce"
  /\ Consumed
  /\ Notice(Append(log, AuditN("mod_action", "timeout", h.duration)))
  /\ UNCHANGED <<aside, config, engine, pendingBans, messageCount, controls, msg, h>>

\* --------------------------------------------------------- ModBot._kickUser
MemberOutcomes == {"fail", "kickable", "unkickable"}

KickMember(outcome) ==
  /\ pc = "k_member"
  /\ Consumed
  /\ h' = [h EXCEPT !.member = outcome]
  /\ CASE outcome = "kickable" ->
            /\ pc' = "k_kick"
            /\ log' = Append(log, Call("member.kick"))
            /\ UNCHANGED actionCount
       [] outcome = "unkickable" -> Notice(log)
       [] OTHER -> Notice(Append(log, Audit("error", "Kick failed")))
  /\ UNCHANGED <<aside, config, engine, pendingBans, messageCount, controls, msg>>

KickReturns(ok) ==
  /\ pc = "k_kick"
  /\ Consumed
  /\ IF ok
     THEN /\ pc' = "k_announce"
          /\ log' = Append(log, Call("channel.send"))
          /\ UNCHANGED actionCount
     ELSE Notice(Append(log, Audit("error", "Kick failed")))
  /\ UNCHANGED <<aside, config, engine, pendingBans, messageCount, controls, msg, h>>

KickAnnounced(ok) ==
  /\ pc = "k_announce"
  /\ Consumed
  /\ Notice(Append(log, Audit("mod_action", "kick")))
  /\ UNCHANGED <<aside, config, engine, pendingBans, messageCount, controls, msg, h>>

\* A variant of NoticeReturns without the try/catch of lines 214-234: a notice
\* that cannot be delivered throws into the catch block of _handleMessage.
NoticeReturnsUncaught(ok) ==
  /\ pc = "o_dm"
  /\ Consumed
  /\ pc' = "done"
  /\ IF ok
     THEN /\ log' = Append(log, Ret("offender.dm", TRUE))
          /\ actionCount' = actionCount + 1
     ELSE /\ log' = Append(Append(log, Ret("offender.dm", FALSE)),
                           Audit("error", "Message handling failed"))
          /\ UNCHANGED actionCount
  /\ UNCHANGED <<aside, config, engine, pendingBans, messageCount, controls, msg, h>>

\* the notice to the offender returns: lines 231-238
NoticeReturns(ok) ==
  /\ pc = "o_dm"
  /\ Consumed
  /\ pc' = "done"
  /\ log' = Append(log, Ret("offender.dm", ok))
  /\ actionCount' = actionCount + 1
  /\ UNCHANGED <<aside, config, engine, pendingBans, messageCount, controls, msg, h>>

\* ------------------------------------------------------- ModBot._requestBan
\* `${userId}_${guildId}`; a string is the sequence of its tokens
Key(u, g) == u \o <<"_">> \o g

\* A variant of CustomId that writes the guild before the user.
CustomIdGuildFirst(type, u, g) == <<"ban", "_", type, "_">> \o g \o <<"_">> \o u

\* `ban_${type}_${userId}_${guildId}`
CustomId(type, u, g) == <<"ban", "_", type, "_">> \o u \o <<"_">> \o g

\* A variant of MapSet that keeps the entry a key already has.
MapSetKeepsFirst(m, k, v) ==
  [x \in DOMAIN m \cup {k} |-> IF x \in DOMAIN m THEN m[x] ELSE v]

\* Map.set
MapSet(m, k, v) == [x \in DOMAIN m \cup {k} |-> IF x = k THEN v ELSE m[x]]
MapDelete(m, k) == [x \in DOMAIN m \ {k} |-> m[x]]

PendingBanRequest(kicked, delivered) ==
  [userId |-> UserId, guildId |-> GuildId, kicked |-> kicked, delivered |-> delivered]

BanContinue(p, lg) ==
  /\ pc' = p
  /\ log' = lg
  /\ UNCHANGED <<pendingBans, controls, actionCount>>

\* lines 497-528, then back in _takeAction
Store(lg, kicked, delivered) ==
  /\ pendingBans' = MapSet(pendingBans, Key(UserId, GuildId),
                           PendingBanRequest(kicked, delivered))
  /\ controls' = IF delivered THEN controls + 1 ELSE controls
  /\ LET exhausted ==
           IF delivered THEN lg
           ELSE Append(lg, Audit("error", "Ban request delivery exhausted"))
     IN  Notice(Append(exhausted, Audit("mod_action", "request_ban")))

\* lines 363-369: the violating guild's members are fetched first
Search(lg) == BanContinue("s_guild", Append(lg, Call("guild.members.fetch")))

\* lines 371-390: the other guilds in cache order, then the user cache; gi is
\* the loop's position, dead once the search is over
NextSource(lg, i) ==
  IF i <= Len(OtherGuilds)
  THEN BanContinue("s_other", Append(lg, CallN("other.members.fetch", i)))
  ELSE BanContinue("s_cache", Append(lg, Call("users.cache.find")))

IsSearch(e) ==
  \/ e.k = "call" /\ e.op \in {"guild.members.fetch", "other.members.fetch", "users.cache.find"}
  \/ e.k = "error" /\ e.op = "Failed to fetch guild members for ban request"

\* lines 396-412: the review payload says whether the offender was kicked
Payload(kicked) == IF kicked THEN 1 ELSE 0

\* lines 392-441: the search is over; its calls leave the record, admin stays
Deliver(lg, admin) ==
  LET kept == SelectSeq(lg, LAMBDA e : ~IsSearch(e))
  IN  IF admin
      THEN BanContinue("d_dm", Append(kept, CallN("reviewer.dm", Payload(h.kicked))))
      ELSE BanContinue("d_findmod", kept)

BanFrame == UNCHANGED <<aside, config, engine, messageCount, msg>>

\* A variant of BanKickReturns that sets kicked before the kick is awaited.
BanKickAssumed(ok) ==
  /\ pc = "b_kick"
  /\ Consumed
  /\ h' = [h EXCEPT !.kicked = TRUE]
  /\ IF ok
     THEN BanContinue("b_announce",
            Append(Append(Append(log, Ret("member.kick", TRUE)),
                          Audit("mod_action", "kick")), Call("channel.send")))
     ELSE Search(Append(Append(log, Ret("member.kick", FALSE)),
                        Audit("error", "Failed to kick user before ban request")))
  /\ BanFrame

\* A variant of BanMember whose catch block logs the failed fetch and returns
\* from _requestBan.
BanMemberFailAborts(outcome) ==
  /\ pc = "b_member"
  /\ Consumed
  /\ h' = [h EXCEPT !.member = outcome]
  /\ CASE outcome = "kickable" ->
            BanContinue("b_kick", Append(log, Call("member.kick")))
       [] outcome = "unkickable" ->
            BanContinue("b_mute", Append(log, CallN("member.timeout", BanReviewMuteMs)))
       [] OTHER ->
            /\ Notice(Append(log, Audit("error", "Failed to kick user before ban request")))
            /\ UNCHANGED <<pendingBans, controls>>
  /\ BanFrame

\* Step 1, lines 313-347: message.member || guild.members.fetch, then the restraint
BanMember(outcome) ==
  /\ pc = "b_member"
  /\ Consumed
  /\ h' = [h EXCEPT !.member = outcome]
  /\ CASE outcome = "kickable" ->
            BanContinue("b_kick", Append(log, Call("member.kick")))
       [] outcome = "unkickable" ->
            BanContinue("b_mute", Append(log, CallN("member.timeout", BanReviewMuteMs)))
       [] OTHER ->
            Search(Append(log, Audit("error", "Failed to kick user before ban request")))
  /\ BanFrame

BanKickReturns(ok) ==
  /\ pc = "b_kick"
  /\ Consumed
  /\ IF ok
     THEN /\ h' = [h EXCEPT !.kicked = TRUE]
          /\ BanContinue("b_announce",
               Append(Append(Append(log, Ret("member.kick", TRUE)),
                             Audit("mod_action", "kick")), Call("channel.send")))
     ELSE /\ UNCHANGED h
          /\ Search(Append(Append(log, Ret("member.kick", FALSE)),
                           Audit("error", "Failed to kick user before ban request")))
  /\ BanFrame

BanAnnounced(ok) ==
  /\ pc = "b_announce"
  /\ Consumed
  /\ Search(log)
  /\ UNCHANGED h
  /\ BanFrame

BanMuteReturns(ok) ==
  /\ pc = "b_mute"
  /\ Consumed
  /\ Search(Append(log, Ret("member.timeout", ok)))
  /\ UNCHANGED h
  /\ BanFrame

SearchOutcomes == {"found", "absent", "fail"}

\* A variant of SearchGuild in which a failed fetch ends the search.
SearchGuildFailEnds(outcome) ==
  /\ pc = "s_guild"
  /\ Consumed
  /\ CASE outcome = "found" ->
            /\ h' = [h EXCEPT !.admin = TRUE]
            /\ Deliver(log, TRUE)
       [] outcome = "absent" ->
            /\ h' = [h EXCEPT !.gi = 1]
            /\ NextSource(log, 1)
       [] OTHER ->
            /\ UNCHANGED h
            /\ Deliver(Append(log, Audit("error",
                 "Failed to fetch guild members for ban request")), FALSE)
  /\ BanFrame

SearchGuild(outcome) ==
  /\ pc = "s_guild"
  /\ Consumed
  /\ CASE outcome = "found" ->
            /\ h' = [h EXCEPT !.admin = TRUE]
            /\ Deliver(log, TRUE)
       [] outcome = "absent" ->
            /\ h' = [h EXCEPT !.gi = 1]
            /\ NextSource(log, 1)
       [] OTHER ->
            /\ h' = [h EXCEPT !.gi = 1]
            /\ NextSource(Append(log, Audit("error",
                 "Failed to fetch guild members for ban request")), 1)
  /\ BanFrame

SearchOther(outcome) ==
  /\ pc = "s_other"
  /\ Consumed
  /\ IF outcome = "found"
     THEN /\ h' = [h EXCEPT !.admin = TRUE, !.gi = 0]
          /\ Deliver(log, TRUE)
     ELSE /\ h' = [h EXCEPT !.gi = h.gi + 1]
          /\ NextSource(log, h.gi + 1)
  /\ BanFrame

SearchCache(found) ==
  /\ pc = "s_cache"
  /\ Consumed
  /\ h' = [h EXCEPT !.admin = found, !.gi = 0]
  /\ Deliver(log, found)
  /\ BanFrame

\* A variant of DmReturns without the `if (!delivered)` guard of line 444.
DmReturnsUnguarded(ok) ==
  /\ pc = "d_dm"
  /\ Consumed
  /\ h' = [h EXCEPT !.delivered = ok]
  /\ BanContinue("d_findmod",
       Append(Append(log, Ret("reviewer.dm", ok)),
              Audit("bot_event",
                    IF ok THEN "ban_request_dm_sent" ELSE "ban_request_dm_failed")))
  /\ BanFrame

\* Attempt 1, lines 431-441: createDM and send to the reviewer
DmReturns(ok) ==
  /\ pc = "d_dm"
  /\ Consumed
  /\ IF ok
     THEN /\ h' = [h EXCEPT !.delivered = TRUE]
          /\ Store(Append(Append(log, Ret("reviewer.dm", TRUE)),
                          Audit("bot_event", "ban_request_dm_sent")), h.kicked, TRUE)
     ELSE /\ UNCHANGED h
          /\ BanContinue("d_findmod",
               Append(Append(log, Ret("reviewer.dm", FALSE)),
                      Audit("bot_event", "ban_request_dm_failed")))
  /\ BanFrame

\* Attempt 2, lines 444-454: a channel of the guild with a moderation name,
\* when there is one; else attempt 3
FindModChannel(exists) ==
  /\ pc = "d_findmod"
  /\ Consumed
  /\ h' = [h EXCEPT !.modChannel = exists]
  /\ IF exists
     THEN BanContinue("d_mod", Append(log, CallN("modChannel.send", Payload(h.kicked))))
     ELSE BanContinue("d_viol", Append(log, CallN("violationChannel.send", Payload(h.kicked))))
  /\ BanFrame

ModReturns(ok) ==
  /\ pc = "d_mod"
  /\ Consumed
  /\ IF ok
     THEN /\ h' = [h EXCEPT !.delivered = TRUE]
          /\ Store(Append(Append(log, Ret("modChannel.send", TRUE)),
                          Audit("bot_event", "ban_request_channel")), h.kicked, TRUE)
     ELSE /\ UNCHANGED h
          /\ BanContinue("d_viol",
               Append(Append(log, Ret("modChannel.send", FALSE)),
                      CallN("violationChannel.send", Payload(h.kicked))))
  /\ BanFrame

\* Attempt 3, lines 468-480: the channel of the violation
ViolationReturns(ok) ==
  /\ pc = "d_viol"
  /\ Consumed
  /\ IF ok
     THEN /\ h' = [h EXCEPT !.delivered = TRUE]
          /\ Store(Append(Append(log, Ret("violationChannel.send", TRUE)),
                          Audit("bot_event", "ban_request_violation_channel")),
                   h.kicked, TRUE)
     ELSE /\ UNCHANGED h
          /\ BanContinue("d_findany",
               Append(Append(log, Ret("violationChannel.send", FALSE)),
                      Audit("error", "Failed to send ban request in violation channel")))
  /\ BanFrame

\* Attempt 4, lines 483-495: the first text channel the bot may send in, when
\* there is one
FindAnyChannel(exists) ==
  /\ pc = "d_findany"
  /\ Consumed
  /\ h' = [h EXCEPT !.anyChannel = exists]
  /\ IF exists
     THEN BanContinue("d_any", Append(log, CallN("anyChannel.send", Payload(h.kicked))))
     ELSE Store(log, h.kicked, FALSE)
  /\ BanFrame

\* A variant of AnyReturns that sets delivered before the send is awaited.
AnyReturnsAssumed(ok) ==
  /\ pc = "d_any"
  /\ Consumed
  /\ h' = [h EXCEPT !.delivered = TRUE]
  /\ Store(Append(log, Ret("anyChannel.send", ok)), h.kicked, TRUE)
  /\ BanFrame

AnyReturns(ok) ==
  /\ pc = "d_any"
  /\ Consumed
  /\ h' = [h EXCEPT !.delivered = ok]
  /\ Store(Append(log, Ret("anyChannel.send", ok)), h.kicked, ok)
  /\ BanFrame

\* ------------------------------------------------ ModBot._handleInteraction
RECURSIVE SplitFrom(_, _, _)
\* String.prototype.split on "_": parts is the list so far, cur the open part
SplitFrom(str, parts, cur) ==
  IF str = <<>> THEN Append(parts, cur)
  ELSE IF Head(str) = "_" THEN SplitFrom(Tail(str), Append(parts, cur), <<>>)
  ELSE SplitFrom(Tail(str), parts, Append(cur, Head(str)))

Split(str) == SplitFrom(str, <<>>, <<>>)

\* const [action, type, userId, guildId] = customId.split('_')
Part(parts, i) == IF i <= Len(parts) THEN parts[i] ELSE <<>>

\* interaction.user is the configured reviewer, or another member who can see
\* the buttons
Interaction(button, customId, user) ==
  [button |-> button, customId |-> customId, user |-> user]

Interactions ==
  {Interaction(TRUE, CustomId("approve", UserId, GuildId), "reviewer"),
   Interaction(TRUE, CustomId("deny", UserId, GuildId), "reviewer"),
   Interaction(TRUE, <<"help", "_", "deny", "_">> \o UserId \o <<"_">> \o GuildId, "reviewer"),
   Interaction(FALSE, CustomId("deny", UserId, GuildId), "reviewer")}

IFrame == UNCHANGED <<aside, config, engine, messageCount, actionCount, msg>>

\* interaction.update({components: []}) takes the buttons off the review message
\* it belongs to; a message that another handler has already cleared has none left
Removed(n) == IF n > 0 THEN n - 1 ELSE 0

\* interaction.update of a catch block: when it rejects too, the rejection
\* leaves _handleInteraction
UpdateInCatch(lg) ==
  /\ pc' = "i_update_err"
  /\ log' = Append(lg, Call("interaction.update"))
  /\ UNCHANGED <<pendingBans, controls>>

IContinue(p, lg) ==
  /\ pc' = p
  /\ log' = lg
  /\ UNCHANGED <<pendingBans, controls>>

\* interactionCreate: up to the guild lookup
HandleInteraction(i) ==
  /\ Idle
  /\ i.button /\ Part(Split(i.customId), 1) = <<"ban">> => controls > 0
  /\ msg' = NoMessage
  /\ Consumed
  /\ LET parts == Split(i.customId)
         type == Part(parts, 2)
         key == Key(Part(parts, 3), Part(parts, 4))
     IN  IF ~i.button \/ Part(parts, 1) # <<"ban">>
         THEN /\ pc' = "done"
              /\ h' = H0
         ELSE /\ h' = [H0 EXCEPT !.type = type[1], !.key = key, !.by = i.user]
              /\ pc' = CASE type = <<"approve">> -> "a_guild"
                         [] type = <<"deny">> -> "n_guild"
                         [] OTHER -> "done"
  /\ log' = <<>>
  /\ UNCHANGED <<aside, config, engine, modbot>>

\* approve: guilds.cache.get(guildId) || guilds.fetch(guildId)
ApproveGuild(ok) ==
  /\ pc = "a_guild"
  /\ IF ok THEN IContinue("a_member", Append(log, Call("members.fetch")))
     ELSE UpdateInCatch(Append(log, Ret("guilds.fetch", FALSE)))
  /\ UNCHANGED <<h, result, analysis>>
  /\ IFrame

\* A variant of ApproveMember without the .catch(() => null) of line 543.
ApproveMemberUncaught(outcome) ==
  /\ pc = "a_member"
  /\ h' = [h EXCEPT !.member = outcome]
  /\ CASE outcome = "bannable" -> IContinue("a_ban", Append(log, Call("member.ban")))
       [] outcome = "unbannable" -> IContinue("a_create", Append(log, Call("bans.create")))
       [] OTHER -> UpdateInCatch(log)
  /\ UNCHANGED <<result, analysis>>
  /\ IFrame

\* lines 543-545, 563: guild.members.fetch(userId).catch(() => null), then the ban
ApproveMember(outcome) ==
  /\ pc = "a_member"
  /\ h' = [h EXCEPT !.member = outcome]
  /\ IF outcome = "bannable"
     THEN IContinue("a_ban", Append(log, Call("member.ban")))
     ELSE IContinue("a_create", Append(log, Call("bans.create")))
  /\ UNCHANGED <<result, analysis>>
  /\ IFrame

ApproveBanReturns(ok) ==
  /\ pc = "a_ban"
  /\ IF ok
     THEN IContinue("a_update",
            Append(Append(log, Ret("member.ban", TRUE)), Call("interaction.update")))
     ELSE UpdateInCatch(Append(log, Ret("member.ban", FALSE)))
  /\ UNCHANGED <<h, result, analysis>>
  /\ IFrame

\* the update after member.ban: lines 546-559, 586
ApproveUpdateReturns(ok) ==
  /\ pc = "a_update"
  /\ IF ok
     THEN /\ pc' = "done"
          /\ log' = Append(Append(log, Ret("interaction.update", TRUE)),
                           Audit("mod_action", "ban"))
          /\ pendingBans' = MapDelete(pendingBans, h.key)
          /\ controls' = Removed(controls)
     ELSE UpdateInCatch(Append(log, Ret("interaction.update", FALSE)))
  /\ UNCHANGED <<h, result, analysis>>
  /\ IFrame

ApproveCreateReturns(ok) ==
  /\ pc = "a_create"
  /\ IContinue(IF ok THEN "a_update_left" ELSE "a_update_warn",
               Append(Append(log, Ret("bans.create", ok)), Call("interaction.update")))
  /\ UNCHANGED <<h, result, analysis>>
  /\ IFrame

\* the update after bans.create: lines 564-577, 586
ApproveLeftUpdateReturns(ok) ==
  /\ pc = "a_update_left"
  /\ IF ok
     THEN /\ pc' = "done"
          /\ log' = Append(Append(log, Ret("interaction.update", TRUE)),
                           Audit("mod_action", "ban"))
          /\ pendingBans' = MapDelete(pendingBans, h.key)
          /\ controls' = Removed(controls)
     ELSE IContinue("a_update_warn",
            Append(Append(log, Ret("interaction.update", FALSE)), Call("interaction.update")))
  /\ UNCHANGED <<h, result, analysis>>
  /\ IFrame

\* the update of the inner catch: lines 578-586
ApproveWarnUpdateReturns(ok) ==
  /\ pc = "a_update_warn"
  /\ IF ok
     THEN /\ pc' = "done"
          /\ log' = Append(log, Ret("interaction.update", TRUE))
          /\ pendingBans' = MapDelete(pendingBans, h.key)
          /\ controls' = Removed(controls)
     ELSE UpdateInCatch(Append(log, Ret("interaction.update", FALSE)))
  /\ UNCHANGED <<h, result, analysis>>
  /\ IFrame

DenyGuild(ok) ==
  /\ pc = "n_guild"
  /\ IF ok THEN IContinue("n_member", Append(log, Call("members.fetch")))
     ELSE UpdateInCatch(Append(log, Ret("guilds.fetch", FALSE)))
  /\ UNCHANGED <<h, result, analysis>>
  /\ IFrame

DenyMember(present) ==
  /\ pc = "n_member"
  /\ IF present THEN IContinue("n_unmute", Append(log, Call("member.timeout.null")))
     ELSE IContinue("n_update", Append(log, Call("interaction.update")))
  /\ h' = [h EXCEPT !.member = IF present THEN "present" ELSE "gone"]
  /\ UNCHANGED <<result, analysis>>
  /\ IFrame

DenyUnmuteReturns(ok) ==
  /\ pc = "n_unmute"
  /\ IF ok
     THEN IContinue("n_update",
            Append(Append(log, Ret("member.timeout.null", TRUE)), Call("interaction.update")))
     ELSE UpdateInCatch(Append(log, Ret("member.timeout.null", FALSE)))
  /\ UNCHANGED <<h, result, analysis>>
  /\ IFrame

DenyUpdateReturns(ok) ==
  /\ pc = "n_update"
  /\ IF ok
     THEN /\ pc' = "done"
          /\ log' = Append(log, Ret("interaction.update", TRUE))
          /\ pendingBans' = MapDelete(pendingBans, h.key)
          /\ controls' = Removed(controls)
     ELSE UpdateInCatch(Append(log, Ret("interaction.update", FALSE)))
  /\ UNCHANGED <<h, result, analysis>>
  /\ IFrame

\* the update of the outer catch of either branch: lines 587-593, 607-613
CatchUpdateReturns(ok) ==
  /\ pc = "i_update_err"
  /\ pc' = "done"
  /\ h' = [h EXCEPT !.raised = ~ok]
  /\ controls' = IF ok THEN Removed(controls) ELSE controls
  /\ log' = Append(log, Ret("interaction.update", ok))
  /\ UNCHANGED <<pendingBans, result, analysis>>
  /\ IFrame

\* ------------------------------------------------------- the specification
MessageNext ==
  \/ \E m \in Messages : HandleMessage(m)
  \/ \E kind \in FailureKinds : ClassifierFails(kind)
  \/ \E r \in Results : ClassifierReturns(r)
  \/ \E ok \in BOOLEAN : ReplyReturns(ok)
  \/ \E ok \in BOOLEAN : DeleteReturns(ok)
  \/ \E ok \in BOOLEAN : TimeoutMember(ok)
  \/ \E ok \in BOOLEAN : TimeoutReturns(ok)
  \/ \E ok \in BOOLEAN : TimeoutAnnounced(ok)
  \/ \E o \in MemberOutcomes : KickMember(o)
  \/ \E ok \in BOOLEAN : KickReturns(ok)
  \/ \E ok \in BOOLEAN : KickAnnounced(ok)
  \/ \E ok \in BOOLEAN : NoticeReturns(ok)

BanNext ==
  \/ \E o \in MemberOutcomes : BanMember(o)
  \/ \E ok \in BOOLEAN : BanKickReturns(ok)
  \/ \E ok \in BOOLEAN : BanAnnounced(ok)
  \/ \E ok \in BOOLEAN : BanMuteReturns(ok)
  \/ \E o \in SearchOutcomes : SearchGuild(o)
  \/ \E o \in SearchOutcomes : SearchOther(o)
  \/ \E found \in BOOLEAN : SearchCache(found)
  \/ \E ok \in BOOLEAN : DmReturns(ok)
  \/ \E exists \in BOOLEAN : FindModChannel(exists)
  \/ \E ok \in BOOLEAN : ModReturns(ok)
  \/ \E ok \in BOOLEAN : ViolationReturns(ok)
  \/ \E exists \in BOOLEAN : FindAnyChannel(exists)
  \/ \E ok \in BOOLEAN : AnyReturns(ok)

InteractionNext ==
  \/ \E i \in Interactions : HandleInteraction(i)
  \/ \E ok \in BOOLEAN : ApproveGuild(ok)
  \/ \E o \in {"gone", "bannable", "unbannable"} : ApproveMember(o)
  \/ \E ok \in BOOLEAN : ApproveBanReturns(ok)
  \/ \E ok \in BOOLEAN : ApproveUpdateReturns(ok)
  \/ \E ok \in BOOLEAN : ApproveCreateReturns(ok)
  \/ \E ok \in BOOLEAN : ApproveLeftUpdateReturns(ok)
  \/ \E ok \in BOOLEAN : ApproveWarnUpdateReturns(ok)
  \/ \E ok \in BOOLEAN : DenyGuild(ok)
  \/ \E present \in BOOLEAN : DenyMember(present)
  \/ \E ok \in BOOLEAN : DenyUnmuteReturns(ok)
  \/ \E ok \in BOOLEAN : DenyUpdateReturns(ok)
  \/ \E ok \in BOOLEAN : CatchUpdateReturns(ok)

Next == MessageNext \/ BanNext \/ InteractionNext

Spec == Init /\ [][Next]_vars

\* ------------------------------------------- every awaited call comes back
\* One flagged message after another, every awaited call of _takeAction and
\* _requestBan resolving or rejecting.  Resume is a step of a handler that is
\* suspended at an await: the call it waits for eventually returns or fails.
LiveNext ==
  \/ HandleMessage(GuildMessage)
  \/ ClassifierReturns(Result(Bool(TRUE), Num(90), Arr(<<RuleId>>), Undefined, Undefined,
                             Str("please stop")))
  \/ \E ok \in BOOLEAN : ReplyReturns(ok)
  \/ \E ok \in BOOLEAN : DeleteReturns(ok)
  \/ \E ok \in BOOLEAN : TimeoutMember(ok)
  \/ \E ok \in BOOLEAN : TimeoutReturns(ok)
  \/ \E ok \in BOOLEAN : TimeoutAnnounced(ok)
  \/ \E o \in MemberOutcomes : KickMember(o)
  \/ \E ok \in BOOLEAN : KickReturns(ok)
  \/ \E ok \in BOOLEAN : KickAnnounced(ok)
  \/ \E ok \in BOOLEAN : NoticeReturns(ok)
  \/ BanNext

Resume == ~Idle /\ LiveNext

LiveSpec == Init /\ [][LiveNext]_vars /\ WF_vars(Resume)

\* ------------------------------------------------------ two handlers at once
\* A handler is suspended at every await, and the event loop may start or resume
\* another one in between.  Switch exchanges the handler that was running with
\* the parked one; a handler that has ended stays where it is until the next one
\* starts in its place.
Running == [pc |-> pc, msg |-> msg, result |-> result, analysis |-> analysis,
            h |-> h, log |-> log]

Switch ==
  /\ parked # Running
  /\ ~Idle \/ parked.pc # "idle"
  /\ parked' = Running
  /\ pc' = parked.pc
  /\ msg' = parked.msg
  /\ result' = parked.result
  /\ analysis' = parked.analysis
  /\ h' = parked.h
  /\ log' = parked.log
  /\ UNCHANGED <<config, engine, modbot, statusListeners, listeners, received,
                  file, lifecycle, review>>

\* one rule of each enforcement; the timeout rule under a threshold of one, so
\* that the first offence takes the warn branch and the next one the timeout
ConcConfigs ==
  {[rules |-> <<Rule("warn", 0, TRUE)>>, settings |-> Settings(Undefined, FALSE)],
   [rules |-> <<Rule("timeout", 300, TRUE)>>, settings |-> Settings(Num(1), FALSE)],
   [rules |-> <<Rule("kick", 0, TRUE)>>, settings |-> Settings(Undefined, FALSE)],
   [rules |-> <<Rule("request_ban", 0, TRUE)>>, settings |-> Settings(Undefined, FALSE)]}

\* a confident flag of the rule, with a reply and without, and a clean message
ConcResults ==
  {Result(Bool(TRUE), Num(90), Arr(<<RuleId>>), Undefined, Undefined, Str("please stop")),
   Result(Bool(TRUE), Num(90), Arr(<<RuleId>>), Undefined, Undefined, Null),
   Result(Bool(FALSE), Num(0), Arr(<<>>), Undefined, Undefined, Null)}

ConcInteractions ==
  {Interaction(TRUE, CustomId(t, UserId, GuildId), "reviewer") : t \in {"approve", "deny"}}

ConcInit ==
  /\ Init
  /\ \E c \in ConcConfigs : rules = c.rules /\ settings = c.settings

\* The platform calls whose outcome bears on neither the ledger nor the pending
\* requests resolve: the delete, the announcements, the offender's lookup of the
\* kick and the reviewer's lookup in the guild.  The direct message to the
\* reviewer is refused and the request goes to the moderation channel, where
\* the buttons can be pressed from more than one client.
ConcNext ==
  \/ HandleMessage(GuildMessage)
  \/ \E r \in ConcResults : ClassifierReturns(r)
  \/ \E ok \in BOOLEAN : ReplyReturns(ok)
  \/ DeleteReturns(TRUE)
  \/ TimeoutMember(TRUE)
  \/ \E ok \in BOOLEAN : TimeoutReturns(ok)
  \/ TimeoutAnnounced(TRUE)
  \/ KickMember("kickable")
  \/ \E ok \in BOOLEAN : KickReturns(ok)
  \/ KickAnnounced(TRUE)
  \/ \E o \in {"kickable", "unkickable"} : BanMember(o)
  \/ BanKickReturns(TRUE)
  \/ BanAnnounced(TRUE)
  \/ BanMuteReturns(TRUE)
  \/ SearchGuild("found")
  \/ DmReturns(FALSE)
  \/ FindModChannel(TRUE)
  \/ ModReturns(TRUE)
  \/ \E i \in ConcInteractions : HandleInteraction(i)
  \/ \E ok \in BOOLEAN : ApproveGuild(ok)
  \/ \E o \in {"gone", "bannable", "unbannable"} : ApproveMember(o)
  \/ \E ok \in BOOLEAN : ApproveBanReturns(ok)
  \/ \E ok \in BOOLEAN : ApproveUpdateReturns(ok)
  \/ \E ok \in BOOLEAN : ApproveCreateReturns(ok)
  \/ \E ok \in BOOLEAN : ApproveLeftUpdateReturns(ok)
  \/ \E ok \in BOOLEAN : ApproveWarnUpdateReturns(ok)
  \/ \E ok \in BOOLEAN : DenyGuild(ok)
  \/ \E present \in BOOLEAN : DenyMember(present)
  \/ \E ok \in BOOLEAN : DenyUnmuteReturns(ok)
  \/ \E ok \in BOOLEAN : DenyUpdateReturns(ok)
  \/ \E ok \in BOOLEAN : CatchUpdateReturns(ok)
  \/ Switch

ConcSpec == ConcInit /\ [][ConcNext]_vars

\* ------------------------------------------------ the store under the handlers
\* ConfigManager's writers, as the dashboard routes of server.js call them while
\* handlers are suspended at their awaits.
\* { ...obj, ...updates }
Merge(obj, updates) ==
  [f \in DOMAIN obj |-> IF f \in DOMAIN updates THEN updates[f] ELSE obj[f]]

\* rules.findIndex(r => r.id === ruleId): the index of the first match, or 0
FindIndex(rs, id) ==
  LET I == {i \in 1..Len(rs) : rs[i].id = id}
  IN  IF I = {} THEN 0 ELSE CHOOSE i \in I : \A j \in I : i <= j

StoreActions == {"timeout", "kick", "request_ban"}
StoreRuleSets == {<<Rule(a, d, e)>> : a \in StoreActions, d \in RuleDurations, e \in BOOLEAN}
StoreSettings == {Settings(Num(1), dm) : dm \in BOOLEAN}
RuleUpdates ==
  {[enabled |-> e] : e \in BOOLEAN} \cup {[action |-> a] : a \in StoreActions}
    \cup {[timeoutDuration |-> d] : d \in RuleDurations}
SettingsUpdates == {[dmOnAction |-> dm] : dm \in BOOLEAN}

StoreFrame == UNCHANGED <<aside, engine, modbot, pc, msg, result, analysis, h, log>>

setRules(rs) ==
  /\ rules' = rs
  /\ UNCHANGED settings
  /\ StoreFrame

updateRule(ruleId, updates) ==
  /\ LET idx == FindIndex(rules, ruleId)
     IN  rules' = IF idx # 0 THEN [rules EXCEPT ![idx] = Merge(rules[idx], updates)]
                  ELSE rules
  /\ UNCHANGED settings
  /\ StoreFrame

updateSettings(updates) ==
  /\ settings' = Merge(settings, updates)
  /\ UNCHANGED rules
  /\ StoreFrame

\* getDefaults reads default-rules.json, which is not part of the sources: the
\* defaults are some rule list and some settings
resetToDefaults ==
  /\ rules' \in StoreRuleSets
  /\ settings' \in StoreSettings
  /\ StoreFrame

\* cfg.rules and cfg.settings are each given or left out
Imported(withRules, withSettings) ==
  [withRules |-> withRules, rules |-> <<Rule("kick", 0, FALSE)>>,
   withSettings |-> withSettings, settings |-> [dmOnAction |-> TRUE]]
ImportedConfigs == {Imported(r, t) : r, t \in BOOLEAN}

importConfig(cfg) ==
  /\ rules' = IF cfg.withRules THEN cfg.rules ELSE rules
  /\ settings' = IF cfg.withSettings THEN Merge(settings, cfg.settings) ELSE settings
  /\ StoreFrame

StoreResults ==
  {Result(Bool(TRUE), Num(90), Arr(<<RuleId>>), Undefined, Num(600), Str("please stop")),
   Result(Bool(FALSE), Num(0), Arr(<<>>), Undefined, Undefined, Null)}

StoreInit ==
  /\ Init
  /\ rules \in StoreRuleSets
  /\ settings \in StoreSettings

\* The handlers with the platform calls resolving, but for the enforcement call
\* and the notice; the store's writers at any moment.
StoreNext ==
  \/ HandleMessage(GuildMessage)
  \/ \E r \in StoreResults : ClassifierReturns(r)
  \/ ReplyReturns(TRUE)
  \/ DeleteReturns(TRUE)
  \/ TimeoutMember(TRUE)
  \/ \E ok \in BOOLEAN : TimeoutReturns(ok)
  \/ TimeoutAnnounced(TRUE)
  \/ KickMember("kickable")
  \/ \E ok \in BOOLEAN : KickReturns(ok)
  \/ KickAnnounced(TRUE)
  \/ \E ok \in BOOLEAN : NoticeReturns(ok)
  \/ BanMember("kickable")
  \/ BanKickReturns(TRUE)
  \/ BanAnnounced(TRUE)
  \/ SearchGuild("found")
  \/ DmReturns(FALSE)
  \/ FindModChannel(TRUE)
  \/ ModReturns(TRUE)
  \/ \E i \in ConcInteractions : HandleInteraction(i)
  \/ ApproveGuild(TRUE)
  \/ ApproveMember("bannable")
  \/ ApproveBanReturns(TRUE)
  \/ ApproveUpdateReturns(TRUE)
  \/ DenyGuild(TRUE)
  \/ DenyMember(TRUE)
  \/ DenyUnmuteReturns(TRUE)
  \/ DenyUpdateReturns(TRUE)
  \/ \E rs \in StoreRuleSets : setRules(rs)
  \/ \E updates \in RuleUpdates : updateRule(RuleId, updates)
  \/ \E updates \in SettingsUpdates : updateSettings(updates)
  \/ resetToDefaults
  \/ \E cfg \in ImportedConfigs : importConfig(cfg)

StoreSpec == StoreInit /\ [][StoreNext]_vars

\* --------------------------------------------- a request posted in a channel
\* The direct message to the reviewer is refused and the request is posted in
\* the moderation channel, where every member who can read the channel sees the
\* buttons: an interaction comes from the reviewer or from another member.
ChannelInteractions ==
  {Interaction(TRUE, CustomId(t, UserId, GuildId), u) :
     t \in {"approve", "deny"}, u \in {"reviewer", "other"}}

ReviewInit ==
  /\ Init
  /\ rules = <<Rule("request_ban", 0, TRUE)>>
  /\ settings = Settings(Undefined, FALSE)

ReviewNext ==
  \/ HandleMessage(GuildMessage)
  \/ \E r \in ConcResults : ClassifierReturns(r)
  \/ \E ok \in BOOLEAN : DeleteReturns(ok)
  \/ \E o \in MemberOutcomes : BanMember(o)
  \/ \E ok \in BOOLEAN : BanKickReturns(ok)
  \/ BanAnnounced(TRUE)
  \/ \E ok \in BOOLEAN : BanMuteReturns(ok)
  \/ SearchGuild("found")
  \/ DmReturns(FALSE)
  \/ FindModChannel(TRUE)
  \/ ModReturns(TRUE)
  \/ \E i \in ChannelInteractions : HandleInteraction(i)
  \/ \E ok \in BOOLEAN : ApproveGuild(ok)
  \/ \E o \in {"gone", "bannable", "unbannable"} : ApproveMember(o)
  \/ \E ok \in BOOLEAN : ApproveBanReturns(ok)
  \/ \E ok \in BOOLEAN : ApproveUpdateReturns(ok)
  \/ \E ok \in BOOLEAN : ApproveCreateReturns(ok)
  \/ \E ok \in BOOLEAN : ApproveLeftUpdateReturns(ok)
  \/ \E ok \in BOOLEAN : ApproveWarnUpdateReturns(ok)
  \/ \E ok \in BOOLEAN : DenyGuild(ok)
  \/ \E present \in BOOLEAN : DenyMember(present)
  \/ \E ok \in BOOLEAN : DenyUnmuteReturns(ok)
  \/ \E ok \in BOOLEAN : DenyUpdateReturns(ok)
  \/ \E ok \in BOOLEAN : CatchUpdateReturns(ok)

ReviewSpec == ReviewInit /\ [][ReviewNext]_vars

\* ------------------------------------------------- ModBot.start and stop
\* POST /api/bot/start and /api/bot/stop call start and stop with no lock of
\* their own; start is suspended at client.login.
LifeFrame ==
  UNCHANGED <<config, engine, modbot, pc, msg, result, analysis, h, log,
              parked, statusListeners, listeners, received, file, review>>

\* start, lines 17-35: up to await this.client.login(token)
Start ==
  /\ lifecycle.calls < MaxStarts
  /\ lifecycle' =
       IF lifecycle.isRunning
       THEN [lifecycle EXCEPT !.calls = @ + 1, !.rejected = @ + 1]
       ELSE [lifecycle EXCEPT !.calls = @ + 1, !.made = @ + 1,
                              !.client = lifecycle.made + 1,
                              !.pending = @ \cup {lifecycle.made + 1}]
  /\ LifeFrame

\* start, lines 37-46: the login of client c resolves or rejects; the login of
\* a client that was destroyed rejects
LoginReturns(c, ok) ==
  /\ c \in lifecycle.pending
  /\ ok => c \notin lifecycle.destroyed
  /\ lifecycle' =
       IF ok
       THEN [lifecycle EXCEPT !.pending = @ \ {c}, !.sessions = @ \cup {c},
                              !.isRunning = TRUE]
       ELSE [lifecycle EXCEPT !.pending = @ \ {c}]
  /\ LifeFrame

\* stop, lines 49-61; client.destroy() returns or throws
Stop(ok) ==
  /\ lifecycle' =
       IF ~lifecycle.isRunning \/ lifecycle.client = 0 THEN lifecycle
       ELSE IF ok
       THEN [lifecycle EXCEPT !.sessions = @ \ {lifecycle.client},
                              !.destroyed = @ \cup {lifecycle.client},
                              !.isRunning = FALSE]
       ELSE lifecycle
  /\ LifeFrame

LifeNext ==
  \/ Start
  \/ \E c \in 1..MaxStarts, ok \in BOOLEAN : LoginReturns(c, ok)
  \/ \E ok \in BOOLEAN : Stop(ok)

LifeSpec == Init /\ [][LifeNext]_vars

\* ------------------------------------- the handlers while the bot is started
\* Two handlers as in ConcSpec, with one start of the bot, its login and stop
\* taken at any point in between.
PendingNext ==
  \/ HandleMessage(GuildMessage)
  \/ ClassifierReturns(Result(Bool(TRUE), Num(90), Arr(<<RuleId>>), Undefined, Undefined,
                             Str("please stop")))
  \/ ReplyReturns(TRUE)
  \/ DeleteReturns(TRUE)
  \/ TimeoutMember(TRUE)
  \/ TimeoutReturns(TRUE)
  \/ TimeoutAnnounced(TRUE)
  \/ KickMember("kickable")
  \/ KickReturns(TRUE)
  \/ KickAnnounced(TRUE)
  \/ \E o \in {"kickable", "unkickable"} : BanMember(o)
  \/ BanKickReturns(TRUE)
  \/ BanAnnounced(TRUE)
  \/ BanMuteReturns(TRUE)
  \/ SearchGuild("found")
  \/ DmReturns(FALSE)
  \/ FindModChannel(TRUE)
  \/ ModReturns(TRUE)
  \/ \E i \in ConcInteractions : HandleInteraction(i)
  \/ ApproveGuild(TRUE)
  \/ \E o \in {"gone", "bannable"} : ApproveMember(o)
  \/ \E ok \in BOOLEAN : ApproveBanReturns(ok)
  \/ \E ok \in BOOLEAN : ApproveUpdateReturns(ok)
  \/ \E ok \in BOOLEAN : ApproveCreateReturns(ok)
  \/ DenyGuild(TRUE)
  \/ DenyMember(TRUE)
  \/ DenyUnmuteReturns(TRUE)
  \/ \E ok \in BOOLEAN : DenyUpdateReturns(ok)
  \/ CatchUpdateReturns(TRUE)
  \/ Switch
  \/ lifecycle.calls = 0 /\ Start
  \/ \E ok \in BOOLEAN : LoginReturns(1, ok)
  \/ \E ok \in BOOLEAN : Stop(ok)

PendingSpec == ConcInit /\ [][PendingNext]_vars

\* ------------------------------------------------ the key of a ban request
\* The ids the platform gives users and guilds are strings of decimal digits.
Digits == {"2", "4", "7"}
RECURSIVE DigitStrings(_)
DigitStrings(n) ==
  IF n = 0 THEN {<<>>}
  ELSE {Append(str, d) : str \in DigitStrings(n - 1), d \in Digits}
PlatformIds == UNION {DigitStrings(n) : n \in 1..MaxIdLen}

KeyFrame ==
  UNCHANGED <<config, engine, modbot, pc, msg, result, analysis, h, log,
              parked, statusListeners, listeners, received, file, lifecycle>>

\* _requestBan, lines 414-425 and 498: the ids of the two buttons and the key
\* of the stored request, for the author u of the message and its guild g
PostControls(u, g) ==
  /\ review = NoReview
  /\ review' = [review EXCEPT !.user = u, !.guild = g,
                               !.customIds = {CustomId("approve", u, g),
                                              CustomId("deny", u, g)},
                               !.stored = Key(u, g)]
  /\ KeyFrame

\* _handleInteraction, lines 537 and 586, 606: the button of type t is
\* pressed; its customId is split, and the key deleted is built from the parts
ParseControl(t) ==
  /\ review.pressed = ""
  /\ \E id \in review.customIds :
       /\ id = CustomId(t, review.user, review.guild)
       /\ LET parts == Split(id)
          IN  review' =
                [review EXCEPT !.pressed = t,
                               !.parsed = [action |-> Part(parts, 1), type |-> Part(parts, 2),
                                           userId |-> Part(parts, 3),
                                           guildId |-> Part(parts, 4)],
                               !.deleted = Key(Part(parts, 3), Part(parts, 4))]
  /\ KeyFrame

KeyNext ==
  \/ \E u \in PlatformIds, g \in PlatformIds : PostControls(u, g)
  \/ \E t \in {"approve", "deny"} : ParseControl(t)

KeySpec == ReviewInit /\ [][KeyNext]_vars

\* ------------------------------------------- the channel context on its own
\* AIEngine.analyzeMessage is followed through a longer run of messages, of two
\* channels, with the classification left out: log records the arrivals.
Channels == {"c1", "c2"}
Arrival(c, k) == [k |-> "message", op |-> c, n |-> k]

TrackInit ==
  /\ Init
  /\ rules = <<Rule("warn", 0, TRUE)>>
  /\ settings = Settings(Undefined, FALSE)

\* _handleMessage line 107, analyzeMessage line 206
Analyze(c) ==
  /\ messageCount < MaxTracked
  /\ messageCount' = messageCount + 1
  /\ recentMessages' = TrackMessage(recentMessages, c, messageCount')
  /\ log' = Append(log, Arrival(c, messageCount'))
  /\ UNCHANGED <<aside, config, userWarnings, pendingBans, actionCount, controls,
               pc, msg, result, analysis, h>>

TrackNext == \E c \in Channels : Analyze(c)

TrackSpec == TrackInit /\ [][TrackNext]_vars

\* ------------------------------------------------- the listeners on their own
\* ModBot._emitStatus and Logger.log with listeners registered: a listener
\* returns or throws; received[who][i] is what listener i of that publisher was
\* called with; h.raised tells whether the last publishing call threw.
ListenerKinds == {"returns", "throws"}

RECURSIVE ForEachUncaught(_, _, _, _)
\* A variant of ForEach without the try/catch around the call of the listener:
\* the first listener that throws ends the loop and the publishing call.
ForEachUncaught(ls, rcv, e, i) ==
  IF i > Len(ls) THEN [rcv |-> rcv, raised |-> FALSE]
  ELSE LET called == [rcv EXCEPT ![i] = Append(rcv[i], e)]
       IN  IF ls[i] = "throws" THEN [rcv |-> called, raised |-> TRUE]
           ELSE ForEachUncaught(ls, called, e, i + 1)

RECURSIVE ForEach(_, _, _, _)
\* listeners.forEach(fn => { try { fn(e); } catch (e) {} }), from listener i on
ForEach(ls, rcv, e, i) ==
  IF i > Len(ls) THEN [rcv |-> rcv, raised |-> FALSE]
  ELSE ForEach(ls, [rcv EXCEPT ![i] = Append(rcv[i], e)], e, i + 1)

\* getStatus, as far as the model has it
Status(event, mc, ac) == [event |-> event, messageCount |-> mc, actionCount |-> ac]

Published == messageCount + actionCount + Len(log)

PublishInit ==
  /\ Init
  /\ rules = <<Rule("warn", 0, TRUE)>>
  /\ settings = Settings(Undefined, FALSE)

PublishFrame ==
  UNCHANGED <<config, engine, pendingBans, controls, pc, msg, result, analysis, parked,
              lifecycle, review>>

\* ModBot.onStatus, as server.js calls it before the bot is started
OnStatus(kind) ==
  /\ Published = 0
  /\ Len(statusListeners) < MaxListeners
  /\ statusListeners' = Append(statusListeners, kind)
  /\ received' = [received EXCEPT !.status = Append(received.status, <<>>)]
  /\ UNCHANGED <<file, listeners, messageCount, actionCount, h, log>>
  /\ PublishFrame

\* Logger.onLog
OnLog(kind) ==
  /\ Published = 0
  /\ Len(listeners) < MaxListeners
  /\ listeners' = Append(listeners, kind)
  /\ received' = [received EXCEPT !.log = Append(received.log, <<>>)]
  /\ UNCHANGED <<file, statusListeners, messageCount, actionCount, h, log>>
  /\ PublishFrame

\* ModBot._emitStatus
EmitStatus(event, mc, ac) ==
  LET r == ForEach(statusListeners, received.status, Status(event, mc, ac), 1)
  IN  /\ received' = [received EXCEPT !.status = r.rcv]
      /\ h' = [h EXCEPT !.raised = r.raised]

\* _handleMessage, lines 107-108
CountMessage ==
  /\ Published < MaxPublished
  /\ messageCount' = messageCount + 1
  /\ EmitStatus("message", messageCount', actionCount)
  /\ UNCHANGED <<file, statusListeners, listeners, actionCount, log>>
  /\ PublishFrame

\* _takeAction, lines 184-185 and 237-238
CountAction ==
  /\ Published < MaxPublished
  /\ actionCount' = actionCount + 1
  /\ EmitStatus("action", messageCount, actionCount')
  /\ UNCHANGED <<file, statusListeners, listeners, messageCount, log>>
  /\ PublishFrame

\* what the file part of Logger.log (lines 687-698) can come to: the entry is
\* written, or existsSync / readFileSync, JSON.parse or writeFileSync throws
FileOutcomes == {"written", "read_fails", "parse_fails", "write_fails"}

\* A variant of LoggerLog without the try/catch of lines 687-698: a failure of
\* the file leaves Logger.log before the listeners are called.
LoggerLogUncaught(entry, outcome) ==
  /\ Published < MaxPublished
  /\ log' = Append(log, entry)
  /\ IF outcome = "written"
     THEN /\ file' = Append(file, entry)
          /\ LET r == ForEach(listeners, received.log, entry, 1)
             IN  /\ received' = [received EXCEPT !.log = r.rcv]
                 /\ h' = [h EXCEPT !.raised = r.raised]
     ELSE /\ file' = file
          /\ received' = received
          /\ h' = [h EXCEPT !.raised = TRUE]
  /\ UNCHANGED <<statusListeners, listeners, messageCount, actionCount>>
  /\ PublishFrame

\* Logger.log, lines 675-707: the entry is pushed, written to the file of the
\* day unless the file fails, and handed to the listeners
LoggerLog(entry, outcome) ==
  /\ Published < MaxPublished
  /\ log' = Append(log, entry)
  /\ file' = IF outcome = "written" THEN Append(file, entry) ELSE file
  /\ LET r == ForEach(listeners, received.log, entry, 1)
     IN  /\ received' = [received EXCEPT !.log = r.rcv]
         /\ h' = [h EXCEPT !.raised = r.raised]
  /\ UNCHANGED <<statusListeners, listeners, messageCount, actionCount>>
  /\ PublishFrame

PublishNext ==
  \/ \E kind \in ListenerKinds : OnStatus(kind)
  \/ \E kind \in ListenerKinds : OnLog(kind)
  \/ CountMessage
  \/ CountAction
  \/ \E outcome \in FileOutcomes : LoggerLog(Audit("bot_event", "ready"), outcome)

PublishSpec == PublishInit /\ [][PublishNext]_vars

\* ----------------------------------------------------------- the properties
Has(e) == \E i \in DOMAIN log : log[i] = e
Called(op) == \E i \in DOMAIN log : log[i].k = "call" /\ log[i].op = op
Entries(type) == SelectSeq(log, LAMBDA e : e.k = type)

Stages == <<"reviewer.dm", "modChannel.send", "violationChannel.send", "anyChannel.send">>
StageOps == {Stages[i] : i \in DOMAIN Stages}
Sends == SelectSeq(log, LAMBDA e : e.k = "call" /\ e.op \in StageOps)
SendReturns == SelectSeq(log, LAMBDA e : e.k = "return" /\ e.op \in StageOps)
StageAvailable(st) ==
  CASE st = "reviewer.dm" -> h.admin
    [] st = "modChannel.send" -> h.modChannel
    [] st = "violationChannel.send" -> TRUE
    [] OTHER -> h.anyChannel
Available == SelectSeq(Stages, StageAvailable)

\* the calls that act on the offender or the review, as opposed to the
\* classification request, the warn reply and the delete itself
EnforcementOps ==
  StageOps \cup {"member.timeout", "member.kick", "channel.send", "offender.dm",
                 "guild.members.fetch", "other.members.fetch", "users.cache.find"}

Stored == h.executed = "request_ban" /\ pc \in {"o_dm", "done"}
KickSucceeded == Has(Ret("member.kick", TRUE))
ConfiguredThreshold ==
  IF settings.warningsBeforeAction.t = "number" THEN settings.warningsBeforeAction.n
  ELSE DefaultMaxWarnings
ClassifierFailed ==
  pc = "done" /\ analysis.reasoning.t = "string" /\ analysis.reasoning.s \in FailureKinds
Declined ==
  /\ analysis # NoVerdict
  /\ \/ EnabledRules(rules) = <<>>
     \/ ~analysis.flagged
     \/ analysis.confidence.n <= ActionThreshold
LedgerUntouched ==
  /\ userWarnings = h.start.userWarnings
  /\ pendingBans = h.start.pendingBans

\* C1: every verdict analyzeMessage returns for a response that parsed to an
\* object is flagged only if the confidence it returns is above 0.7.
C1_FlaggedRequiresConfidence ==
  (analysis # NoVerdict /\ analysis.flagged) =>
    analysis.confidence.t = "number" /\ analysis.confidence.n > FlagThreshold

\* C2: for every configured warningsBeforeAction threshold and every warning
\* count w, a verdict that resolves to timeout is executed as warn when w is
\* below the threshold (no delete, no mute, ledger w+1) and as timeout when w
\* has reached it (ledger stays w).
C2_SofteningFollowsThreshold ==
  (h.action = "timeout" /\ h.executed # "") =>
    IF h.warningCount < ConfiguredThreshold
    THEN /\ h.executed = "warn"
         /\ ~Called("delete")
         /\ ~Called("member.timeout")
         /\ getWarningCount(userWarnings, UserId) = h.warningCount + 1
    ELSE /\ h.executed = "timeout"
         /\ getWarningCount(userWarnings, UserId) = h.warningCount

\* C3: when the executed action is warn the delete call is never made; for
\* every other executed action the delete call is made, and before every
\* call of the mute, the kick and the ban request.
C3_DeleteBeforeEnforcement ==
  /\ h.executed = "warn" => ~Called("delete")
  /\ h.executed \notin {"", "warn"} =>
       \E i \in DOMAIN log :
         /\ log[i] = Call("delete")
         /\ \A j \in DOMAIN log :
              (log[j].k = "call" /\ log[j].op \in EnforcementOps) => i < j

C3_Witness ==
  /\ pc = "done"
  /\ h.executed = "request_ban"
  /\ Called("member.kick")
  /\ Called("reviewer.dm")

\* C4: the sends of a ban request follow the order reviewer DM, moderation
\* channel, violation channel, any channel over the stages that are available;
\* none follows a send that succeeded; and once the request is stored their
\* number is the position of the first success among the available stages, or
\* the number of available stages when every send failed.
C4_DeliveryOrder ==
  h.executed = "request_ban" =>
    /\ Len(Sends) <= Len(Available)
    /\ \A i \in DOMAIN Sends : Sends[i].op = Available[i]
    /\ \A i \in DOMAIN SendReturns :
         /\ i <= Len(Sends)
         /\ SendReturns[i].op = Sends[i].op
         /\ i < Len(Sends) => SendReturns[i].n = 0
    /\ Stored =>
         /\ Len(SendReturns) = Len(Sends)
         /\ Len(Sends) >= 1
         /\ SendReturns[Len(Sends)].n = 1 \/ Len(Sends) = Len(Available)

C4_Witness ==
  /\ Stored
  /\ Has(Ret("reviewer.dm", FALSE))
  /\ Has(Ret("modChannel.send", FALSE))
  /\ Has(Ret("violationChannel.send", TRUE))
  /\ Len(Sends) = 3

\* C5: an approve whose member fetch finds the offender gone bans by raw id
\* through guild.bans.create and never calls member.ban.
C5_ApproveAfterLeft ==
  (h.type = "approve" /\ h.member = "gone") =>
    Called("bans.create") /\ ~Called("member.ban")

C5_Witness ==
  /\ pc = "done"
  /\ h.type = "approve"
  /\ h.member = "gone"
  /\ Has(Audit("mod_action", "ban"))

\* C6: a deny for a key whose pending request is already gone leaves
\* pendingBans unchanged and no rejection leaves _handleInteraction.
C6_DenyResolvedIsNoOp ==
  (pc = "done" /\ h.type = "deny" /\ h.key \notin DOMAIN h.start.pendingBans) =>
    pendingBans = h.start.pendingBans /\ ~h.raised

\* C7: when the classification fails no enforcement step is taken (no call
\* beyond the request itself, no action entry, ledger and pendingBans as they
\* were) and exactly one error entry is written.
C7_ClassifierFailureIsSilent ==
  ClassifierFailed =>
    /\ h.executed = ""
    /\ \A i \in DOMAIN log : log[i].k = "call" => log[i].op = "axios.post"
    /\ Entries("mod_action") = <<>>
    /\ LedgerUntouched
    /\ Len(Entries("error")) = 1

C7_Witness ==
  /\ ClassifierFailed
  /\ analysis.reasoning.s = "timeout"
  /\ getWarningCount(userWarnings, UserId) = 1
  /\ Len(Entries("error")) = 1

\* C8: in a ban request a kickable offender gets the kick and no mute, an
\* unkickable one the 7-day mute and no kick, and the kicked flag of every
\* review payload and of the stored request is true exactly when the kick
\* succeeded.
C8_RestraintAndKickedFlag ==
  h.executed = "request_ban" =>
    /\ h.member = "kickable" => Called("member.kick") /\ ~Called("member.timeout")
    /\ h.member = "unkickable" =>
         Has(CallN("member.timeout", BanReviewMuteMs)) /\ ~Called("member.kick")
    /\ \A i \in DOMAIN Sends : (Sends[i].n = 1) <=> KickSucceeded
    /\ Stored =>
         /\ Key(UserId, GuildId) \in DOMAIN pendingBans
         /\ pendingBans[Key(UserId, GuildId)].kicked <=> KickSucceeded

C8_Witness ==
  /\ Stored
  /\ h.member = "kickable"
  /\ KickSucceeded
  /\ pendingBans[Key(UserId, GuildId)].kicked
  /\ Len(Sends) >= 1

\* C9: when no rule is enabled, or the verdict is unflagged, or its confidence
\* is at most 0.7, _takeAction is not entered, no platform call is made, and
\* the ledger, pendingBans and actionCount stay as they were.
C9_DeclinedVerdictDoesNothing ==
  Declined =>
    /\ h.executed = ""
    /\ \A i \in DOMAIN log : log[i].k = "call" => log[i].op = "axios.post"
    /\ LedgerUntouched
    /\ actionCount = h.start.actionCount

C9_Witness ==
  /\ pc = "done"
  /\ Declined
  /\ analysis.flagged
  /\ getWarningCount(userWarnings, UserId) = 1

\* C10: whenever violations[0] matches a rule, the action enforced is the
\* rule's action and the duration of the mute is the rule's timeoutDuration,
\* whatever the verdict suggests and for every timeoutDuration >= 0.
C10_RuleOverridesVerdict ==
  h.hasRule =>
    /\ h.action = h.rule.action
    /\ \A i \in DOMAIN log :
         (h.executed = "timeout" /\ log[i].k = "call" /\ log[i].op = "member.timeout") =>
           log[i].n = h.rule.timeoutDuration * MsPerSecond
\* C11: softening applies only to timeout: for every warning count a resolved
\* kick is executed as kick and a resolved request_ban as request_ban, neither
\* adding a warning nor writing a warn entry, and a resolved warn is executed
\* as warn.
C11_OnlyTimeoutSoftens ==
  (h.executed # "" /\ h.action \in {"warn", "kick", "request_ban"}) =>
    /\ h.executed = h.action
    /\ h.action \in {"kick", "request_ban"} =>
         /\ ~Has(Audit("mod_action", "warn"))
         /\ getWarningCount(userWarnings, UserId) = h.warningCount
         /\ Called("delete")
    /\ h.action = "warn" =>
         /\ getWarningCount(userWarnings, UserId) = h.warningCount + 1
         /\ \A i \in DOMAIN log : log[i].k = "call" => log[i].op \in {"axios.post", "reply"}

\* a kick resolved for a user with no warning yet, under the default threshold
C11_Witness ==
  /\ pc = "done"
  /\ h.action = "kick"
  /\ h.executed = "kick"
  /\ h.warningCount = 0
  /\ h.maxWarnings = DefaultMaxWarnings
  /\ Has(Audit("mod_action", "kick"))
Exhausted == Audit("error", "Ban request delivery exhausted")
SendSucceeded == \E i \in DOMAIN SendReturns : SendReturns[i].n = 1

\* C12: the stored request has delivered true exactly when some send
\* succeeded; when every send failed the request is stored all the same with
\* delivered false, one delivery-exhausted error entry is written, and no send
\* follows it.
C12_ExhaustionIsRecorded ==
  Stored =>
    /\ Key(UserId, GuildId) \in DOMAIN pendingBans
    /\ pendingBans[Key(UserId, GuildId)].delivered <=> SendSucceeded
    /\ SendSucceeded => ~Has(Exhausted)
    /\ ~SendSucceeded =>
         /\ Len(SelectSeq(log, LAMBDA e : e = Exhausted)) = 1
         /\ \A i, j \in DOMAIN log :
              (log[i] = Exhausted /\ log[j].k = "call" /\ log[j].op \in StageOps) => j < i

\* all four stages were available and all four sends failed
C12_Witness ==
  /\ Stored
  /\ Len(Sends) = 4
  /\ ~SendSucceeded
  /\ ~pendingBans[Key(UserId, GuildId)].delivered
  /\ Has(Exhausted)
BanAudits == SelectSeq(log, LAMBDA e : e = Audit("mod_action", "ban"))
BanSucceeded == Has(Ret("member.ban", TRUE)) \/ Has(Ret("bans.create", TRUE))

\* C13: when an approve ends with the offender banned, by member record or by
\* raw id, the pending entry of the key is gone and exactly one mod-action
\* entry with action ban has been written.
C13_ApprovedBanIsTerminal ==
  (pc = "done" /\ h.type = "approve" /\ BanSucceeded) =>
    /\ h.key \notin DOMAIN pendingBans
    /\ Len(BanAudits) = 1
BanFailed ==
  \/ Has(Ret("member.ban", FALSE))
  \/ Has(Ret("bans.create", FALSE))
  \/ (h.type = "approve" /\ Has(Ret("guilds.fetch", FALSE)))

\* C14: when an approve fails to ban the offender (member.ban fails,
\* bans.create fails, or the guild cannot be fetched) the failure is reported
\* through the interaction response and the pending entry of the key, present
\* before, is still present afterwards.
C14_FailedBanKeepsEntry ==
  (pc = "done" /\ h.type = "approve" /\ BanFailed
     /\ h.key \in DOMAIN h.start.pendingBans) =>
    /\ Called("interaction.update")
    /\ h.key \in DOMAIN pendingBans
AuditEntries == SelectSeq(log, LAMBDA e : e.k \notin {"call", "return"})

\* C15: after a deny has been processed the mute of an offender who is still a
\* member has been lifted and the pending entry of the key is absent, also
\* when the unmute or the guild lookup fails.
C15_DenyLiftsAndRemoves ==
  (pc = "done" /\ h.type = "deny") =>
    /\ h.member = "present" => Has(Ret("member.timeout.null", TRUE))
    /\ h.key \notin DOMAIN pendingBans

\* C16: every processed deny writes an audit entry for the denial.
C16_DenyIsAudited ==
  (pc = "done" /\ h.type = "deny") => AuditEntries # <<>>
AnalysisFailed == Has(Audit("error", "AI analysis failed"))

\* C17: for every failure of the classification request (timeout, transport
\* error, no JSON object in the body, JSON that does not parse) analyzeMessage
\* raises nothing and returns the safe default: flagged false, confidence 0,
\* no violations, suggestedAction none, and a reasoning that carries the
\* failure.
C17_FailureGivesSafeDefault ==
  AnalysisFailed =>
    /\ analysis.flagged = FALSE
    /\ analysis.confidence = Num(0)
    /\ analysis.violations = <<>>
    /\ analysis.suggestedAction = Str("none")
    /\ analysis.reasoning.t = "string" /\ analysis.reasoning.s \in FailureKinds
    /\ ~Has(Audit("error", "Message handling failed"))
    /\ ~h.raised

\* the body held JSON that did not parse
C17_Witness ==
  /\ AnalysisFailed
  /\ analysis.reasoning = Str("bad_json")
  /\ analysis.suggestedDuration = Num(0)
  /\ analysis.replyMessage = Null
\* an audit entry written after the delete, other than the delete's own error
LoggedAfterDelete ==
  \E i, j \in DOMAIN log :
    /\ log[i] = Call("delete")
    /\ i < j
    /\ log[j].k \notin {"call", "return"}
    /\ log[j] # Audit("error", "Failed to delete message")

\* C18: for a kick against a member the bot cannot kick, member.kick is never
\* called, nothing is raised out of _kickUser, and the failed attempt is
\* written to the audit sink.
C18_UnkickableIsLogged ==
  (pc = "done" /\ h.executed = "kick" /\ h.member = "unkickable") =>
    /\ ~Called("member.kick")
    /\ ~h.raised
    /\ ~Has(Audit("error", "Message handling failed"))
    /\ LoggedAfterDelete
\* C19: with dmOnAction on, an executed timeout, kick or request_ban is
\* followed by an attempt to notify the offender, made after every other call
\* of the handler; no notice is attempted for an executed warn or with
\* dmOnAction off; and whether the notice is delivered or not, the action is
\* counted once, the ban request stays stored and nothing is raised.
C19_NoticeIsBestEffort ==
  /\ (pc = "done" /\ settings.dmOnAction
        /\ h.executed \in {"timeout", "kick", "request_ban"}) =>
       \E i \in DOMAIN log :
         /\ log[i] = Call("offender.dm")
         /\ \A j \in DOMAIN log : (log[j].k = "call" /\ j # i) => j < i
  /\ (h.executed = "warn" \/ ~settings.dmOnAction) => ~Called("offender.dm")
  /\ (pc = "done" /\ Called("offender.dm")) =>
       /\ actionCount = h.start.actionCount + 1
       /\ h.executed = "request_ban" => Key(UserId, GuildId) \in DOMAIN pendingBans
       /\ ~Has(Audit("error", "Message handling failed"))
       /\ ~h.raised

\* a mute was applied and the notice about it could not be delivered
C19_Witness ==
  /\ pc = "done"
  /\ h.executed = "timeout"
  /\ Has(AuditN("mod_action", "timeout", h.duration))
  /\ Has(Ret("offender.dm", FALSE))
  /\ actionCount = h.start.actionCount + 1
SearchOps == {"guild.members.fetch", "other.members.fetch", "users.cache.find"}
SearchCalls(lg) == SelectSeq(lg, LAMBDA e : e.k = "call" /\ e.op \in SearchOps)
SourceOrder ==
  <<Call("guild.members.fetch")>>
    \o [i \in 1..Len(OtherGuilds) |-> CallN("other.members.fetch", i)]
    \o <<Call("users.cache.find")>>
InSearch == pc \in {"s_guild", "s_other", "s_cache"}

\* C20: the reviewer search consults the violating guild's members, then each
\* other guild's members in turn, then the user cache, in that order; a match
\* ends the search at once and the request goes to the reviewer found; a
\* source without a match, or a guild whose fetch failed, is followed by the
\* next source; after the user cache the search is over.
C20_SearchOrder ==
  [][/\ pc' \in {"s_guild", "s_other", "s_cache"} =>
          SearchCalls(log') = SubSeq(SourceOrder, 1, Len(SearchCalls(log')))
     /\ (InSearch /\ h'.admin) =>
          /\ pc' = "d_dm"
          /\ SearchCalls(log') = <<>>
          /\ log'[Len(log')].op = "reviewer.dm"
     /\ (InSearch /\ pc # "s_cache" /\ ~h'.admin) =>
          /\ pc' \in {"s_other", "s_cache"}
          /\ Len(SearchCalls(log')) = Len(SearchCalls(log)) + 1
     /\ (pc = "s_cache" /\ ~h'.admin) => pc' = "d_findmod"
    ]_vars

\* the guild's fetch failed and the search went on through every other source
C20_Witness ==
  /\ pc = "s_cache"
  /\ Has(Audit("error", "Failed to fetch guild members for ban request"))
  /\ SearchCalls(log) = SourceOrder

Skipped ==
  /\ msg # NoMessage
  /\ \/ msg.bot \/ msg.system \/ ~msg.guild
     \/ msg.channel \in settings.ignoredChannels
     \/ msg.roles \cap (settings.ignoredRoles \cup settings.trustedRoles) # {}

\* C21: a message in an ignored channel, or by a member holding an ignored or a
\* trusted role, or from a bot, or a system message, or one outside a guild, is
\* never passed to the classifier, is not added to the channel context, and
\* causes no call, no audit entry and no change of the ledger, of pendingBans or
\* of actionCount.
C21_SkippedBeforeClassification ==
  Skipped =>
    /\ pc = "done"
    /\ log = <<>>
    /\ analysis = NoVerdict
    /\ h.executed = ""
    /\ LedgerUntouched
    /\ actionCount = h.start.actionCount
    /\ (~msg.bot /\ ~msg.system /\ msg.guild) =>
         \A c \in DOMAIN recentMessages :
           \A i \in DOMAIN recentMessages[c] : recentMessages[c][i] # messageCount

\* a message by a trusted member that follows a message that drew a warning
C21_Witness ==
  /\ Skipped
  /\ msg.roles = {"staff"}
  /\ messageCount = 2
  /\ getWarningCount(userWarnings, UserId) = 1

\* C26: whichever platform calls fail while a message is handled, no exception
\* leaves _handleMessage: the handler runs to its end, where an action that was
\* executed has been counted once, and the outer catch block is never needed.
C26_NothingEscapesHandleMessage ==
  h.type = "" =>
    /\ ~h.raised
    /\ ~Has(Audit("error", "Message handling failed"))
    /\ (pc = "done" /\ h.executed # "") => actionCount = h.start.actionCount + 1

\* the delete, the member fetch of the kick and the notice to the offender failed
C26_Witness ==
  /\ pc = "done"
  /\ h.executed = "kick"
  /\ Has(Audit("error", "Failed to delete message"))
  /\ Has(Audit("error", "Kick failed"))
  /\ Has(Ret("offender.dm", FALSE))

DeleteError == Audit("error", "Failed to delete message")
AfterDelete(action) ==
  CASE action = "timeout" -> "t_member"
    [] action = "kick" -> "k_member"
    [] action = "request_ban" -> "b_member"
    [] OTHER -> IF h.dm THEN "o_dm" ELSE "done"

\* C27: when the delete returns, the handler goes on to the mute, the kick or
\* the ban request of the resolved action whether the delete succeeded or
\* failed; a failed delete adds one error entry, written before anything else,
\* and changes nothing else of what follows.
C27_DeleteFailureIsNotFatal ==
  [][pc = "delete" =>
       /\ pc' = AfterDelete(h.action)
       /\ \E ok \in BOOLEAN :
            LET reported == IF ok THEN <<Ret("delete", TRUE)>>
                            ELSE <<Ret("delete", FALSE), DeleteError>>
                next == IF pc' = "o_dm" THEN <<Call("offender.dm")>> ELSE <<>>
            IN  log' = log \o reported \o next
       /\ h'.action = h.action /\ h'.executed = h.executed
       /\ userWarnings' = userWarnings /\ pendingBans' = pendingBans
    ]_vars

\* the delete failed and the mute was applied all the same
C27_Witness ==
  /\ pc = "done"
  /\ h.executed = "timeout"
  /\ Has(Ret("delete", FALSE))
  /\ Has(DeleteError)
  /\ Has(AuditN("mod_action", "timeout", h.duration))

RestraintFailed ==
  /\ h.executed = "request_ban"
  /\ \/ h.member = "fail"
     \/ Has(Ret("member.kick", FALSE))
     \/ Has(Ret("member.timeout", FALSE))

ClaimedDuration == IF h.hasRule THEN h.rule.timeoutDuration ELSE h.duration
PastTimeoutUser == h.executed = "timeout" /\ pc \in {"o_dm", "done"}

\* C29: for an executed timeout the mute is called after the delete attempt
\* with the rule's timeoutDuration when a rule matches and with the verdict's
\* duration otherwise; a mute that succeeded leaves a mod-action entry timeout
\* with that duration; a mute that failed leaves an error entry and no
\* mod-action entry, and nothing is raised.
C29_TimeoutMutesAndAudits ==
  h.executed = "timeout" =>
    /\ \A i \in DOMAIN log :
         (log[i].k = "call" /\ log[i].op = "member.timeout") =>
           /\ log[i].n = ClaimedDuration * MsPerSecond
           /\ \E j \in 1..(i - 1) : log[j] = Call("delete")
    /\ (PastTimeoutUser /\ Has(Ret("member.timeout", TRUE))) =>
         Has(AuditN("mod_action", "timeout", ClaimedDuration))
    /\ (PastTimeoutUser /\ Has(Ret("member.timeout", FALSE))) =>
         /\ Has(Audit("error", "Timeout failed"))
         /\ Entries("mod_action") = <<>>
    /\ ~h.raised

\* the verdict the handler is acting on names no rule of the configuration
NoMatch ==
  /\ analysis # NoVerdict
  /\ h.executed # ""
  /\ \/ analysis.violations = <<>>
     \/ \A i \in DOMAIN rules : rules[i].id # analysis.violations[1]

\* C30: when the verdict's first violation matches no rule, or it lists no
\* violation, the action and the duration enforced are the verdict's own
\* suggestedAction and suggestedDuration, under the usual softening and
\* deletion: warn, or timeout below the threshold, is executed as warn without
\* a delete; everything else is executed as suggested after the delete call.
C30_NoRuleNoOverride ==
  NoMatch =>
    /\ ~h.hasRule
    /\ h.action = analysis.suggestedAction.s
    /\ h.duration = analysis.suggestedDuration.n
    /\ IF h.action = "warn" \/ (h.action = "timeout" /\ h.warningCount < h.maxWarnings)
       THEN h.executed = "warn" /\ ~Called("delete")
       ELSE h.executed = h.action /\ log[Len(log)] = Call("delete")

\* the second violation names a rule, the first does not
C30_Witness ==
  /\ NoMatch
  /\ analysis.violations = <<"zz", RuleId>>
  /\ rules[1].action = "warn"
  /\ h.executed = "kick"
  /\ pc = "delete"

\* the messages analyzed in channel c, in arrival order
Arrivals(c) ==
  LET of == SelectSeq(log, LAMBDA e : e.k = "message" /\ e.op = c)
  IN  [i \in DOMAIN of |-> of[i].n]
Context(c) == IF c \in DOMAIN recentMessages THEN recentMessages[c] ELSE <<>>
Min(a, b) == IF a < b THEN a ELSE b

\* C25: after any sequence of analyzed messages every channel's context holds
\* at most 10 entries and is, in arrival order, the last min(n, 10) of the n
\* messages analyzed in that channel.
C25_ContextIsBoundedFifo ==
  \A c \in Channels :
    LET n == Len(Arrivals(c))
        size == Min(n, maxContext)
    IN  /\ Len(Context(c)) <= maxContext
        /\ Context(c) = SubSeq(Arrivals(c), n - size + 1, n)

\* the 11th message of a channel pushed its first out; the other channel keeps its one
C25_Witness ==
  /\ Len(Arrivals("c1")) = maxContext + 1
  /\ Len(Context("c1")) = maxContext
  /\ Context("c1")[1] = Arrivals("c1")[2]
  /\ Context("c2") = Arrivals("c2")
  /\ Len(Context("c2")) = 1

\* every listener of the sequence was called once more, with the event e
AllReceive(ls, before, after, e) ==
  /\ Len(after) = Len(ls)
  /\ \A i \in DOMAIN ls : after[i] = Append(before[i], e)

\* C22: a publishing call (_emitStatus after a counter was raised, Logger.log
\* after the entry was stored) hands the same event to every registered
\* listener, those after a listener that threw included, raises nothing, and
\* keeps the counter or the stored entry.
C22_ListenerFailureIsContained ==
  [][/\ (messageCount' # messageCount \/ actionCount' # actionCount) =>
          /\ messageCount' + actionCount' = messageCount + actionCount + 1
          /\ \E event \in {"message", "action"} :
               AllReceive(statusListeners, received.status, received'.status,
                          Status(event, messageCount', actionCount'))
          /\ ~h'.raised
     /\ log' # log =>
          /\ Len(log') = Len(log) + 1 /\ SubSeq(log', 1, Len(log)) = log
          /\ AllReceive(listeners, received.log, received'.log, log'[Len(log')])
          /\ ~h'.raised
    ]_vars

\* a listener that throws is registered before one that returns, and both
\* were handed a status event and a log entry
C22_Witness ==
  /\ Len(statusListeners) = 2 /\ statusListeners[1] = "throws"
  /\ Len(listeners) = 2 /\ listeners[1] = "throws"
  /\ Len(received.status[2]) = 1
  /\ Len(received.log[2]) = 1
  /\ messageCount = 1
  /\ Len(log) = 1

\* the step is one of the running handler, and it takes the warn branch of
\* _takeAction (line 156)
WarnStep == parked' = parked /\ pc = "classifier" /\ h'.executed = "warn"

\* C24: under any interleaving of two handlers the offender's warning count is
\* never negative and rises by exactly one in exactly the steps that execute a
\* warn-level action; every other step (the awaits of the warn, timeout, kick
\* and ban-request branches, approve, deny, the switch between handlers) leaves
\* it as it is, so that it always equals the number of warn-level actions
\* executed.
C24_LedgerCountsWarnActions ==
  /\ [](userWarnings[UserId] >= 0)
  /\ [][userWarnings'[UserId] = userWarnings[UserId] + (IF WarnStep THEN 1 ELSE 0)]_vars

\* two handlers that both began with no warning on record have both taken the
\* warn branch, and the ledger holds two
C24_Witness ==
  /\ h.executed = "warn" /\ h.start.userWarnings[UserId] = 0
  /\ parked.h.executed = "warn" /\ parked.h.start.userWarnings[UserId] = 0
  /\ userWarnings[UserId] = 2

\* handler t is an approve whose ban went through (lines 545, 563)
Banned(t) ==
  /\ t.h.type = "approve"
  /\ \E i \in DOMAIN t.log :
       t.log[i] \in {Ret("member.ban", TRUE), Ret("bans.create", TRUE)}

\* handler t is a deny that ran to its end with no call rejected: the review
\* message was marked denied and the entry removed (lines 598-606)
Denied(t) ==
  /\ t.h.type = "deny"
  /\ t.pc = "done"
  /\ \A i \in DOMAIN t.log : t.log[i].k = "return" => t.log[i].n = 1

\* C23: for a single stored request, an approve that banned the offender and a
\* deny that cleared the request never both happen, in whichever order the two
\* handlers start and interleave.
C23_OneOutcomePerRequest ==
  messageCount = 1 =>
    /\ ~(Banned(Running) /\ Denied(parked))
    /\ ~(Banned(parked) /\ Denied(Running))

\* analyzeMessage has just returned the verdict of a response that parsed
Parsed == result # NoResult

\* C33: every verdict returned after a successful parse has confidence a number
\* within [0, 1] (0..100 hundredths), violations a list, and reasoning,
\* suggestedAction, suggestedDuration and replyMessage present.
C33_VerdictIsNormalized ==
  Parsed =>
    /\ analysis.confidence.t = "number"
    /\ analysis.confidence.n >= 0 /\ analysis.confidence.n <= 100
    /\ analysis.violations \in Seq({RuleId, "zz"})
    /\ analysis.reasoning.t = "string"
    /\ analysis.suggestedAction.t = "string"
    /\ analysis.suggestedDuration.t = "number"
    /\ analysis.replyMessage # Undefined

\* _takeAction went past the warn test with an action that names no enforcement:
\* the default branch of the switch of lines 197-210
ResolvedNone ==
  h.type = "" /\ h.executed \notin {"", "warn", "timeout", "kick", "request_ban"}

\* C38: when a flagged verdict resolves to action none (or to a string that
\* names no action) the message is not deleted, nobody is muted, kicked or
\* sent a notice, and actionCount stays as the handler found it.
C38_NoneDoesNothing ==
  ResolvedNone =>
    /\ \A i \in DOMAIN log :
         log[i].k = "call" =>
           log[i].op \notin {"delete", "member.timeout", "member.kick", "offender.dm"}
    /\ actionCount = h.start.actionCount

\* C35: Logger.log never fails its caller: the entry is appended to the
\* in-memory log and handed to the listeners, and nothing is raised, whether
\* the entry reached the log file or reading, parsing or writing the file failed.
C35_RecordingNeverFails ==
  [][log' # log =>
       /\ Len(log') = Len(log) + 1 /\ SubSeq(log', 1, Len(log)) = log
       /\ file' \in {file, Append(file, log'[Len(log')])}
       /\ Len(received'.log) = Len(listeners)
       /\ \A i \in DOMAIN listeners :
            received'.log[i] = Append(received.log[i], log'[Len(log')])
       /\ ~h'.raised
    ]_vars

\* two entries were recorded while the file failed, and a listener has both
C35_Witness ==
  /\ Len(log) = 2 /\ file = <<>>
  /\ Len(listeners) = 1 /\ received.log[1] = log
  /\ ~h.raised

\* the step belongs to a handler: it moves the handler or writes its record
HandlerStep == pc' # pc \/ h' # h \/ log' # log

\* C31: no step of a message handler or of an interaction handler changes the
\* rules or the settings of the store; they change only in the steps of
\* setRules, updateRule, updateSettings, resetToDefaults and importConfig,
\* which touch nothing else.
C31_HandlersLeaveTheStore ==
  [][/\ HandlerStep => rules' = rules /\ settings' = settings
     /\ (rules' # rules \/ settings' # settings) =>
          UNCHANGED <<userWarnings, recentMessages, pendingBans, messageCount,
                      actionCount, controls, msg, result, analysis>>
    ]_vars

\* a handler has enforced the rule it read, and the store has since been
\* given another rule and other settings
C31_Witness ==
  /\ pc = "done" /\ h.executed = "kick" /\ actionCount = 1
  /\ h.hasRule /\ h.rule # rules[1]
  /\ h.dm # settings.dmOnAction

\* C37: the rule whose action and duration _takeAction applies is enabled at
\* the moment of the decision.
C37_AppliedRuleIsEnabled ==
  h.hasRule => h.rule.enabled

\* C36: an approve or deny pressed by a user other than the configured reviewer
\* bans nobody, lifts no mute and leaves the pending entry where it was.
C36_OnlyTheReviewerResolves ==
  (h.type \in {"approve", "deny"} /\ h.by = "other") =>
    /\ \A i \in DOMAIN log :
         /\ log[i] \notin {Ret("member.ban", TRUE), Ret("bans.create", TRUE)}
         /\ log[i] # Call("member.timeout.null")
    /\ pendingBans = h.start.pendingBans

\* C40: at most one client is logged in or logging in at any time: a start
\* that finds the bot running or another start awaiting its login creates no
\* client; isRunning holds only while a client is logged in; and a bot that is
\* not running has no session left.
C40_OneClientAtATime ==
  /\ Cardinality(lifecycle.sessions \cup lifecycle.pending) <= 1
  /\ lifecycle.isRunning => lifecycle.sessions # {}
  /\ ~lifecycle.isRunning => lifecycle.sessions = {}

\* the step of _requestBan that stores the request and writes its audit entry
InsertStep ==
  /\ parked' = parked
  /\ h.type = ""
  /\ Len(log') > Len(log)
  /\ \E i \in (Len(log) + 1)..Len(log') : log'[i] = Audit("mod_action", "request_ban")

\* a step of the approve or deny branch of _handleInteraction
ResolveStep == parked' = parked /\ h.type \in {"approve", "deny"} /\ pc' = "done"

\* C39: under any interleaving of two handlers with the start and stop of the
\* bot, pendingBans holds at most the one entry of the offender's key; the step
\* of _requestBan that stores a request leaves under that key the entry of this
\* request, whatever was there before; and pendingBans changes only in that
\* step (insert) and in the last step of an approve or deny (delete of the
\* key): the steps of warn, timeout and kick, of start, login and stop, and the
\* switch between handlers leave it as it is.
C39_PendingChangesOnlyByRequestAndReview ==
  [][/\ DOMAIN pendingBans' \subseteq {Key(UserId, GuildId)}
     /\ InsertStep =>
          /\ Key(UserId, GuildId) \in DOMAIN pendingBans'
          /\ pendingBans'[Key(UserId, GuildId)] = PendingBanRequest(h.kicked, h'.delivered)
     /\ pendingBans' # pendingBans =>
          \/ InsertStep
          \/ ResolveStep /\ pendingBans' = [k \in DOMAIN pendingBans \ {h.key} |-> pendingBans[k]]
     /\ lifecycle' # lifecycle => pendingBans' = pendingBans]_vars

\* both handlers stored a request for the offender, one after a kick and one
\* without, while the bot was started: the later one replaced the earlier
C39_Witness ==
  /\ lifecycle.isRunning
  /\ Has(Audit("mod_action", "request_ban"))
  /\ \E i \in DOMAIN parked.log : parked.log[i] = Audit("mod_action", "request_ban")
  /\ h.kicked # parked.h.kicked
  /\ Key(UserId, GuildId) \in DOMAIN pendingBans

\* C34: for every pair of platform ids, the customId of the pressed button
\* splits into ban, the type of that button, the user id and the guild id the
\* request was posted for, and the key deleted equals the key stored.
C34_KeyRoundTrip ==
  review.pressed # "" =>
    /\ review.parsed.action = <<"ban">>
    /\ review.parsed.type = <<review.pressed>>
    /\ review.parsed.userId = review.user
    /\ review.parsed.guildId = review.guild
    /\ review.deleted = review.stored

\* the deny button of a request was pressed, for a user and a guild whose ids
\* differ and have more than one digit
C34_Witness ==
  /\ review.pressed = "deny"
  /\ review.user # review.guild
  /\ Len(review.user) > 1 /\ Len(review.guild) > 1

\* the platform calls that change the guild: delete, mute, kick
Mutations == {"delete", "member.timeout", "member.kick"}
CallsOf(op) == Len(SelectSeq(log, LAMBDA e : e.k = "call" /\ e.op = op))

\* C32: when every awaited call eventually returns or fails, a handler that
\* has begun reaches its end, and so does the enforcement of each kind (warn,
\* timeout, kick, request_ban) whatever calls fail on the way; and for one
\* message the delete, the mute and the kick are each called at most once.
C32_EnforcementCompletesWithoutRetry ==
  /\ [](\A op \in Mutations : CallsOf(op) <= 1)
  /\ ~Idle ~> pc = "done"
  /\ \A a \in {"warn", "timeout", "kick", "request_ban"} :
       (~Idle /\ h.executed = a) ~> (pc = "done" /\ h.executed = a)

\* a ban request ran to its end although the delete and the kick were each
\* called once and failed and no send of the request succeeded
C32_Witness ==
  /\ pc = "done"
  /\ h.executed = "request_ban"
  /\ \A op \in {"delete", "member.kick"} :
       CallsOf(op) = 1 /\ \E i \in DOMAIN log : log[i] = Ret(op, FALSE)
  /\ \E i \in DOMAIN log : log[i] = Audit("error", "Ban request delivery exhausted")

====
